---- MODULE Spec2Model ----
(***************************************************************************)
(* RPC-over-port messaging of the browser extension (lib/messaging/trpc).  *)
(*                                                                         *)
(* The main state machines modelled from the source:                       *)
(*   - the server-side dispatcher, createExtensionHandler, under an        *)
(*     environment that sends it arbitrary request envelopes;              *)
(*     specification Spec;                                                 *)
(*   - the client-side link, extensionLink, under an environment that      *)
(*     sends it arbitrary response envelopes; specification LinkSpec.      *)
(* Smaller machines, each on a variable of its own, model one call end to  *)
(* end, the path walk, error formatting, the performance recorder, the     *)
(* logger, generateId, channel creation, the adapters, unrelated traffic   *)
(* and PortConnection.                                                     *)
(*                                                                         *)
(* Each action is one JavaScript task: a listener call, a timer callback,  *)
(* or the continuation of an async function after an await.                *)
(***************************************************************************)
EXTENDS Integers, Sequences, FiniteSets, TLC

(***************************************************************************)
(* Bounds of the model.                                                    *)
(***************************************************************************)
MaxReqs == 2       \* query, mutation and subscription envelopes the dispatcher receives
MaxEmit == 1       \* values one stream emits after it has been subscribed
MaxInv == 2        \* invocations made through the client link
MaxResp == 2       \* response envelopes that arrive on the client's channel
Ports == {1, 2}    \* channels that connect to the dispatcher
Ids == {1, 2}      \* correlation ids carried by request envelopes
SyncData == {0, 1} \* values a stream may emit inside the subscribe call

Reqs == 1..MaxReqs

\* the request envelopes sent to the dispatcher: method, and whether params is present
ReqShapes == {<<"query", TRUE>>, <<"query", FALSE>>, <<"mutation", TRUE>>, <<"subscription", TRUE>>}

VARIABLES
  portState,      \* server: channel -> "idle" | "open" | "closed"
  subscriptions,  \* server: channel -> (id -> stream held under that id, 0 = no entry)
  reqs,           \* server: the query, mutation and subscription envelopes received, in order
  stopped,        \* server: request -> a subscription.stop for its id was handled on its
                  \*         channel after the procedure of the request was invoked
  task,           \* server: position of the async messageHandler call of each request
  streams,        \* server: the stream each subscription request subscribed to
  sent,           \* server: request -> the response envelopes posted for it, in order
  ctxCalls,       \* server: request -> calls of createContext made for it
  onErrorCalls,   \* server: request -> calls of onError made for it
  options,        \* client: the ExtensionLinkOptions (timeout)
  port,           \* client: the channel of the link, "open" | "closed"
  ops,            \* client: invocation -> its closure state and what its caller observed
  posted,         \* client: the envelopes the link posted on the channel, in order
  arrived,        \* client: number of response envelopes that arrived on the channel
  call,           \* one query or mutation followed from the caller to the procedure and back
  walk,           \* server: the resolution of one dotted path against the procedure tree
  fault,            \* one error formatted by the dispatcher and reconstructed by the link
  perf,           \* the TRPCDebugger's performance entries
  dbg,           \* one invocation of the link run with its logger, beside the same run with the logger off
  gen,           \* core: the clock and the ids generateId has returned, in order
  chan,          \* client: the links made, the channels opened and the invocations on them
  adapter,       \* one creation of a browser adapter: the globals, the options, the outcome
  stray,         \* both sides' message listeners given traffic with and without the protocol key
  conn           \* core: one PortConnection, its handlers, subscriptions and requests
                  \* with the logger off

serverVars == <<portState, subscriptions, reqs, stopped, task, streams, sent, ctxCalls, onErrorCalls>>
linkVars == <<options, port, ops, posted, arrived>>
auxVars == <<dbg, gen, chan, adapter, stray, conn>>
othersThanDbg == <<serverVars, linkVars, call, walk, fault, perf, gen, chan, adapter, stray, conn>>
othersThanGen == <<serverVars, linkVars, call, walk, fault, perf, dbg, chan, adapter, stray, conn>>
othersThanChan == <<serverVars, linkVars, call, walk, fault, perf, dbg, gen, adapter, stray, conn>>
othersThanAdapter == <<serverVars, linkVars, call, walk, fault, perf, dbg, gen, chan, stray, conn>>
othersThanStray == <<serverVars, linkVars, call, walk, fault, perf, dbg, gen, chan, adapter, conn>>
othersThanConn == <<serverVars, linkVars, call, walk, fault, perf, dbg, gen, chan, adapter, stray>>
libVars == <<walk, fault, perf, auxVars>>
vars == <<portState, subscriptions, reqs, stopped, task, streams, sent, ctxCalls, onErrorCalls,
          options, port, ops, posted, arrived, call, walk, fault, perf, auxVars>>

NoStream == [st |-> "none", released |-> 0, unsubCalled |-> FALSE, throws |-> FALSE, emitted |-> 0]

EmptyTable == [i \in Ids |-> 0]

(***************************************************************************)
(* Helpers over the Map<string, Unsubscribable> of one channel.            *)
(***************************************************************************)
\* the streams held in a table
Entries(tbl) == {tbl[i] : i \in {j \in Ids : tbl[j] # 0}}

\* subscriptions.delete(id)
MapDelete(tbl, id) == [tbl EXCEPT ![id] = 0]

\* subscriptions.set(id, subscription)
MapSet(tbl, id, s) == [tbl EXCEPT ![id] = s]

(***************************************************************************)
(* subscription.unsubscribe() of a stream returned by observable(): the    *)
(* teardown of the stream runs on the first call only; a call is counted   *)
(* whether or not the teardown throws.                                     *)
(***************************************************************************)
Unsubscribe(s) ==
  [s EXCEPT !.unsubCalled = TRUE,
            !.released = IF @ = 0 THEN 1 ELSE @]

\* port.postMessage(response): an envelope posted on a channel that is no
\* longer connected reaches nobody
PostAll(log, r, msgs) ==
  IF portState[reqs[r].port] = "open" THEN [log EXCEPT ![r] = @ \o msgs] ELSE log

ServerInit ==
  /\ portState = [p \in Ports |-> "idle"]
  /\ subscriptions = [p \in Ports |-> EmptyTable]
  /\ reqs = <<>>
  /\ stopped = [r \in Reqs |-> FALSE]
  /\ task = [r \in Reqs |-> "none"]
  /\ streams = [r \in Reqs |-> NoStream]
  /\ sent = [r \in Reqs |-> <<>>]
  /\ ctxCalls = [r \in Reqs |-> 0]
  /\ onErrorCalls = [r \in Reqs |-> 0]

(***************************************************************************)
(* adapter.runtime.onConnect listener: a new channel gets an empty         *)
(* subscription table, a message listener and a disconnect listener.       *)
(***************************************************************************)
OnConnect(p) ==
  /\ portState[p] = "idle"
  /\ \A q \in Ports : q < p => portState[q] # "idle"   \* channels are interchangeable
  /\ portState' = [portState EXCEPT ![p] = "open"]
  /\ subscriptions' = [subscriptions EXCEPT ![p] = EmptyTable]
  /\ UNCHANGED <<reqs, stopped, task, streams, sent, ctxCalls, onErrorCalls, linkVars, call, libVars>>

(***************************************************************************)
(* messageHandler, method "subscription.stop": runs to its return within   *)
(* the listener call.                                                      *)
(***************************************************************************)
\* the subscription requests of channel p with this id whose procedure had been
\* invoked when this subscription.stop arrived are marked (book-keeping of the
\* model, not of the code)
StopSeen(p, id) ==
  [r \in Reqs |-> stopped[r] \/ (/\ r <= Len(reqs)
                                  /\ task[r] \in {"proc", "done"}
                                  /\ reqs[r].method = "subscription"
                                  /\ reqs[r].port = p
                                  /\ reqs[r].id = id)]

\* the stop branch with the delete outside a finally: a release that throws
\* leaves the entry in the table
StopNoFinally(p, id) ==
  LET s == subscriptions[p][id] IN
  /\ portState[p] = "open"
  /\ stopped' = StopSeen(p, id)
  /\ IF s # 0
       THEN /\ streams' = [streams EXCEPT ![s] = Unsubscribe(@)]
            /\ subscriptions' = IF streams[s].throws THEN subscriptions
                                ELSE [subscriptions EXCEPT ![p] = MapDelete(@, id)]
       ELSE UNCHANGED <<streams, subscriptions>>
  /\ UNCHANGED <<portState, reqs, task, sent, ctxCalls, onErrorCalls, linkVars, call, libVars>>

\* a subscription.stop that would look the id up in one table shared by all
\* channels
StopOnEveryChannel(p, id) ==
  LET found == {subscriptions[q][id] : q \in Ports} \ {0} IN
  /\ portState[p] = "open"
  /\ stopped' = StopSeen(p, id)
  /\ streams' = [r \in Reqs |-> IF r \in found THEN Unsubscribe(streams[r]) ELSE streams[r]]
  /\ subscriptions' = [q \in Ports |-> MapDelete(subscriptions[q], id)]
  /\ UNCHANGED <<portState, reqs, task, sent, ctxCalls, onErrorCalls, linkVars, call, libVars>>

HandleStop(p, id) ==
  LET s == subscriptions[p][id] IN
  /\ portState[p] = "open"
  /\ stopped' = StopSeen(p, id)
  /\ IF s # 0
       THEN /\ streams' = [streams EXCEPT ![s] = Unsubscribe(@)]
            /\ subscriptions' = [subscriptions EXCEPT ![p] = MapDelete(@, id)]
       ELSE UNCHANGED <<streams, subscriptions>>
  /\ UNCHANGED <<portState, reqs, task, sent, ctxCalls, onErrorCalls, linkVars, call, libVars>>

(***************************************************************************)
(* messageHandler, any other method: the listener call runs up to the      *)
(* await of createContext().                                               *)
(***************************************************************************)
HandleRequest(p, id, method, params) ==
  /\ portState[p] = "open"
  /\ Len(reqs) < MaxReqs
  /\ <<method, params>> \in ReqShapes
  \* ids are interchangeable: a fresh id is the least one not yet seen
  /\ \A j \in Ids : j < id => \E k \in 1..Len(reqs) : reqs[k].id = j
  /\ reqs' = Append(reqs, [port |-> p, id |-> id, method |-> method, params |-> params])
  /\ task' = [task EXCEPT ![Len(reqs) + 1] = "ctx"]
  /\ ctxCalls' = [ctxCalls EXCEPT ![Len(reqs) + 1] = @ + 1]
  /\ UNCHANGED <<portState, subscriptions, stopped, streams, sent, onErrorCalls, linkVars, call, libVars>>

(***************************************************************************)
(* The catch block of messageHandler: onError is called, then one failure  *)
(* envelope is posted.                                                     *)
(***************************************************************************)
Fail(r, before) ==
  /\ onErrorCalls' = [onErrorCalls EXCEPT ![r] = @ + 1]
  /\ sent' = PostAll(sent, r, before \o <<"error">>)

(***************************************************************************)
(* Continuation after await createContext(): the context factory threw     *)
(* (the rejection leaves messageHandler, nothing is caught), or the        *)
(* request has no params, or the path does not resolve, or the procedure   *)
(* is called and awaited.                                                  *)
(***************************************************************************)
AfterContext(r, outcome) ==
  /\ r \in 1..Len(reqs)
  /\ task[r] = "ctx"
  /\ outcome \in {"ctxThrows", "notFound", "called"}
  /\ IF outcome = "ctxThrows"
       THEN /\ task' = [task EXCEPT ![r] = "crashed"]
            /\ UNCHANGED <<sent, onErrorCalls>>
       ELSE IF ~reqs[r].params
         THEN /\ task' = [task EXCEPT ![r] = "done"]
              /\ UNCHANGED <<sent, onErrorCalls>>
         ELSE IF outcome = "notFound"
           THEN /\ task' = [task EXCEPT ![r] = "done"]
                /\ Fail(r, <<>>)
           ELSE /\ task' = [task EXCEPT ![r] = "proc"]
                /\ UNCHANGED <<sent, onErrorCalls>>
  /\ UNCHANGED <<portState, subscriptions, reqs, stopped, streams, ctxCalls, linkVars, call, libVars>>

(***************************************************************************)
(* The envelopes a stream posts from inside result.subscribe(...), before  *)
(* subscribe returns: n values, then possibly its completion or its error. *)
(***************************************************************************)
SyncEnvelopes(n, syncEnd) ==
  [k \in 1..n |-> "data"]
    \o (IF syncEnd = "complete" THEN <<"stopped">>
        ELSE IF syncEnd = "error" THEN <<"error">>
        ELSE <<>>)

\* the stream object after result.subscribe(...) has returned; a stream that
\* ended inside the call has had its teardown run when the call returned
Subscribed(syncEnd, throws) ==
  [st |-> IF syncEnd = "complete" THEN "completed"
          ELSE IF syncEnd = "error" THEN "errored" ELSE "active",
   released |-> IF syncEnd = "none" THEN 0 ELSE 1,
   unsubCalled |-> FALSE,
   throws |-> throws,
   emitted |-> 0]

(***************************************************************************)
(* Continuation after await procedure(input): the procedure threw, or it   *)
(* returned a plain value, or (subscription) it returned an observable,    *)
(* which is subscribed, registered and acknowledged.                       *)
(* A stream whose teardown throws, or that emitted a value inside          *)
(* subscribe, is taken not to end inside subscribe.                        *)
(***************************************************************************)
AfterProcedure(r, outcome, n, syncEnd, throws) ==
  LET p == reqs[r].port
      id == reqs[r].id
      afterSync == IF syncEnd = "complete" THEN MapDelete(subscriptions[p], id)
                   ELSE subscriptions[p]
  IN
  /\ r \in 1..Len(reqs)
  /\ task[r] = "proc"
  /\ outcome \in {"throws", "value", "observable"}
  /\ outcome = "observable" => reqs[r].method = "subscription"
  /\ outcome # "observable" => n = 0 /\ syncEnd = "none" /\ ~throws
  /\ throws => syncEnd = "none"
  /\ n > 0 => syncEnd = "none"
  /\ task' = [task EXCEPT ![r] = "done"]
  /\ IF outcome = "throws"
       THEN /\ Fail(r, <<>>)
            /\ UNCHANGED <<subscriptions, streams>>
       ELSE IF outcome = "value"
         THEN /\ sent' = PostAll(sent, r, <<"data">>)
              /\ UNCHANGED <<subscriptions, streams, onErrorCalls>>
         ELSE /\ streams' = [streams EXCEPT ![r] = Subscribed(syncEnd, throws)]
              /\ subscriptions' = [subscriptions EXCEPT ![p] = MapSet(afterSync, id, r)]
              /\ sent' = PostAll(sent, r, SyncEnvelopes(n, syncEnd) \o <<"started">>)
              /\ UNCHANGED onErrorCalls
  /\ UNCHANGED <<portState, reqs, stopped, ctxCalls, linkVars, call, libVars>>

\* a stream can still call its observer: subscribed, not done, teardown not run
Live(r) == streams[r].st = "active" /\ streams[r].released = 0

(***************************************************************************)
(* Observer callbacks of a subscribed stream, called by the stream from a  *)
(* later task.                                                             *)
(***************************************************************************)
StreamNext(r) ==
  /\ r \in 1..Len(reqs)
  /\ Live(r)
  /\ streams[r].emitted < MaxEmit
  /\ streams' = [streams EXCEPT ![r].emitted = @ + 1]
  /\ sent' = PostAll(sent, r, <<"data">>)
  /\ UNCHANGED <<portState, subscriptions, reqs, stopped, task, ctxCalls, onErrorCalls, linkVars, call, libVars>>

\* an error callback that would also clear the table of the channel
StreamErrorClearsTable(r) ==
  /\ r \in 1..Len(reqs)
  /\ Live(r)
  /\ streams' = [streams EXCEPT ![r].st = "errored", ![r].released = 1]
  /\ sent' = PostAll(sent, r, <<"error">>)
  /\ subscriptions' = [subscriptions EXCEPT ![reqs[r].port] = EmptyTable]
  /\ UNCHANGED <<portState, reqs, stopped, task, ctxCalls, onErrorCalls, linkVars, call, libVars>>

StreamError(r) ==
  /\ r \in 1..Len(reqs)
  /\ Live(r)
  /\ streams' = [streams EXCEPT ![r].st = "errored", ![r].released = 1]
  /\ sent' = PostAll(sent, r, <<"error">>)
  /\ UNCHANGED <<portState, subscriptions, reqs, stopped, task, ctxCalls, onErrorCalls, linkVars, call, libVars>>

StreamComplete(r) ==
  /\ r \in 1..Len(reqs)
  /\ Live(r)
  /\ streams' = [streams EXCEPT ![r].st = "completed", ![r].released = 1]
  /\ sent' = PostAll(sent, r, <<"stopped">>)
  /\ subscriptions' = [subscriptions EXCEPT ![reqs[r].port] = MapDelete(@, reqs[r].id)]
  /\ UNCHANGED <<portState, reqs, stopped, task, ctxCalls, onErrorCalls, linkVars, call, libVars>>

(***************************************************************************)
(* port.onDisconnect listener of the dispatcher.                           *)
(***************************************************************************)
\* the forEach without its try/catch: it stops at the first release that throws
DisconnectNoCatch(p) ==
  LET tbl == subscriptions[p]
      bad == {i \in Ids : tbl[i] # 0 /\ streams[tbl[i]].throws}
      upto == IF bad = {} THEN Ids
              ELSE {i \in Ids : \A b \in bad : i <= b}
      called == {tbl[i] : i \in {j \in upto : tbl[j] # 0}}
  IN
  /\ portState[p] = "open"
  /\ portState' = [portState EXCEPT ![p] = "closed"]
  /\ streams' = [r \in Reqs |-> IF r \in called THEN Unsubscribe(streams[r]) ELSE streams[r]]
  /\ subscriptions' = IF bad = {} THEN [subscriptions EXCEPT ![p] = EmptyTable]
                      ELSE subscriptions
  /\ UNCHANGED <<reqs, stopped, task, sent, ctxCalls, onErrorCalls, linkVars, call, libVars>>

\* a disconnect listener that would release the subscriptions and keep the table
DisconnectKeepsTable(p) ==
  /\ portState[p] = "open"
  /\ portState' = [portState EXCEPT ![p] = "closed"]
  /\ streams' = [r \in Reqs |-> IF r \in Entries(subscriptions[p])
                                  THEN Unsubscribe(streams[r]) ELSE streams[r]]
  /\ UNCHANGED <<subscriptions, reqs, stopped, task, sent, ctxCalls, onErrorCalls, linkVars, call,
                 libVars>>

OnDisconnect(p) ==
  /\ portState[p] = "open"
  /\ portState' = [portState EXCEPT ![p] = "closed"]
  /\ streams' = [r \in Reqs |-> IF r \in Entries(subscriptions[p])
                                  THEN Unsubscribe(streams[r]) ELSE streams[r]]
  /\ subscriptions' = [subscriptions EXCEPT ![p] = EmptyTable]
  /\ UNCHANGED <<reqs, stopped, task, sent, ctxCalls, onErrorCalls, linkVars, call, libVars>>

ServerNext ==
  \/ \E p \in Ports : OnConnect(p)
  \/ \E p \in Ports, id \in Ids : HandleStop(p, id)
  \/ \E p \in Ports, id \in Ids, sh \in ReqShapes : HandleRequest(p, id, sh[1], sh[2])
  \/ \E r \in Reqs, o \in {"ctxThrows", "notFound", "called"} : AfterContext(r, o)
  \/ \E r \in Reqs, o \in {"throws", "value", "observable"}, n \in SyncData,
        e \in {"none", "complete", "error"}, th \in BOOLEAN : AfterProcedure(r, o, n, e, th)
  \/ \E r \in Reqs : StreamNext(r)
  \/ \E r \in Reqs : StreamError(r)
  \/ \E r \in Reqs : StreamComplete(r)
  \/ \E p \in Ports : OnDisconnect(p)

(***************************************************************************)
(* The client link, extensionLink.  Every invocation is one call of the    *)
(* function given to observable(): it owns messageId, timeoutId and        *)
(* isCompleted, and two listeners on the channel.  All invocations use the *)
(* channel given as options.port.                                          *)
(***************************************************************************)
Invs == 1..MaxInv

DefaultTimeout == 30000

\* options.timeout: absent, or a number of milliseconds
TimeoutOptions ==
  {[given |-> FALSE, ms |-> 0], [given |-> TRUE, ms |-> 0], [given |-> TRUE, ms |-> 50],
   [given |-> TRUE, ms |-> -1]}

\* a timeout that would take the magnitude of a negative option
TimeoutMagnitude ==
  IF options.given THEN (IF options.ms < 0 THEN 0 - options.ms ELSE options.ms)
  ELSE DefaultTimeout

\* const timeout = options.timeout ?? 30000
timeout == IF options.given THEN options.ms ELSE DefaultTimeout

OpTypes == {"query", "mutation", "subscription"}

ResponseTypes == {"data", "started", "stopped", "error"}

\* op.path of invocation i: every invocation calls a procedure of its own
OpPath(i) == <<"storage", i>>

\* a message built from a template literal: the template and the values that
\* fill its holes (0, <<>> and "" for a hole the template does not have)
Message(template, ms, path, reason) ==
  [template |-> template, timeout |-> ms, path |-> path, reason |-> reason]

\* no error object
NoError == [code |-> "none", message |-> Message("", 0, <<>>, "")]

\* createTimeoutError that would leave the path out of the message
CreateTimeoutErrorNoPath(ms, path) ==
  [code |-> "TIMEOUT", message |-> Message("Request timed out after ${timeout}ms", ms, <<>>, "")]

\* createTimeoutError(timeout, path)
CreateTimeoutError(ms, path) ==
  [code |-> "TIMEOUT",
   message |-> IF path # <<>>
                 THEN Message("Request timed out after ${timeout}ms for ${path}", ms, path, "")
                 ELSE Message("Request timed out after ${timeout}ms", ms, <<>>, "")]

\* createDisconnectionError(reason)
CreateDisconnectionError(reason) ==
  [code |-> "CLIENT_CLOSED_REQUEST",
   message |-> IF reason # ""
                 THEN Message("Connection closed: ${reason}", 0, <<>>, reason)
                 ELSE Message("Connection closed", 0, <<>>, "")]

\* new TRPCError({code: error.data?.code ?? "INTERNAL_SERVER_ERROR", message: error.message})
\* for the failure of a response envelope; the envelopes of the model carry no data.code
ResponseError ==
  [code |-> "INTERNAL_SERVER_ERROR", message |-> Message("${error.message}", 0, <<>>, "")]

NoOp ==
  [type |-> "none",
   isCompleted |-> FALSE,     \* let isCompleted
   timeoutId |-> FALSE,       \* a timer is armed
   onMessage |-> FALSE,       \* messageHandler is a listener of port.onMessage
   onDisconnect |-> FALSE,    \* disconnectHandler is a listener of port.onDisconnect
   path |-> <<>>,             \* op.path
   delay |-> 0,               \* the delay given to setTimeout, 0 if it was never called
   error |-> NoError,         \* the error the caller was given by observer.error
   isDone |-> FALSE,          \* observable(): a terminal notification went to the caller
   unsubscribed |-> FALSE,    \* observable(): the teardown function has been called
   stops |-> 0,               \* subscription.stop envelopes posted
   late |-> 0,                \* envelopes with its id that arrived after its message
                              \* listener was removed (book-keeping of the model)
   delivered |-> <<>>]        \* what the caller observed, in order

LinkInit ==
  /\ options \in TimeoutOptions
  /\ port = "open"
  /\ ops = [i \in Invs |-> NoOp]
  /\ posted = <<>>
  /\ arrived = 0

LinkIdle ==
  /\ options = [given |-> FALSE, ms |-> 0]
  /\ port = "open"
  /\ ops = [i \in Invs |-> NoOp]
  /\ posted = <<>>
  /\ arrived = 0

\* cleanup() without the removal of the message listener
CleanupKeepsListener(o) ==
  [o EXCEPT !.timeoutId = FALSE, !.onDisconnect = FALSE]

\* cleanup() without clearTimeout
CleanupKeepsTimer(o) ==
  [o EXCEPT !.onMessage = FALSE, !.onDisconnect = FALSE]

\* cleanup()
Cleanup(o) ==
  [o EXCEPT !.timeoutId = FALSE, !.onMessage = FALSE, !.onDisconnect = FALSE]

\* the teardown of a subscription without the test of isCompleted
TeardownAlwaysStops(o) ==
  IF o.type = "subscription"
    THEN Cleanup([o EXCEPT !.isCompleted = TRUE, !.stops = @ + 1])
    ELSE Cleanup([o EXCEPT !.isCompleted = TRUE])

\* the teardown of a query or mutation without the call of cleanup()
TeardownNoCleanup(o) ==
  IF o.type = "subscription"
    THEN IF ~o.isCompleted
           THEN Cleanup([o EXCEPT !.isCompleted = TRUE, !.stops = @ + 1])
           ELSE Cleanup(o)
    ELSE [o EXCEPT !.isCompleted = TRUE]

\* the function returned to observable(): for a subscription it posts
\* subscription.stop if the invocation is not completed; then cleanup()
Teardown(o) ==
  IF o.type = "subscription"
    THEN IF ~o.isCompleted
           THEN Cleanup([o EXCEPT !.isCompleted = TRUE, !.stops = @ + 1])
           ELSE Cleanup(o)
    ELSE Cleanup([o EXCEPT !.isCompleted = TRUE])

\* unsubscribe() of observable(): the teardown function is called once
ObsUnsubscribe(o) ==
  IF o.unsubscribed THEN o ELSE Teardown([o EXCEPT !.unsubscribed = TRUE])

\* observer.next(value) through observable()
ObsNext(o, what) ==
  IF o.isDone THEN o ELSE [o EXCEPT !.delivered = Append(@, what)]

\* observer.error(e) and observer.complete() that would not unsubscribe
ObsEndNoUnsubscribe(o, what) ==
  IF o.isDone THEN o
  ELSE [o EXCEPT !.isDone = TRUE, !.delivered = Append(@, what)]

\* observer.error(e) and observer.complete() through observable(): the first one
\* goes to the caller, and the invocation is unsubscribed
ObsEnd(o, what) ==
  IF o.isDone THEN o
  ELSE ObsUnsubscribe([o EXCEPT !.isDone = TRUE, !.delivered = Append(@, what)])

\* observer.error(TRPCClientError.from(error)) through observable()
ObsError(o, what, err) ==
  IF o.isDone THEN o ELSE ObsEnd([o EXCEPT !.error = err], what)

\* the subscription.stop envelopes the step from o to n posted for invocation i
StopsPosted(i, o, n) == [k \in 1..(n.stops - o.stops) |-> <<i, "subscription.stop">>]

(***************************************************************************)
(* One call of the link for an operation: listeners added, request         *)
(* envelope posted, timer armed.                                           *)
(***************************************************************************)
Invoke(i, type) ==
  /\ ops[i].type = "none"
  /\ \A j \in Invs : j < i => ops[j].type # "none"
  /\ type \in OpTypes
  /\ port = "open"
  /\ ops' = [ops EXCEPT ![i] = [NoOp EXCEPT !.type = type,
                                            !.path = OpPath(i),
                                            !.onMessage = TRUE,
                                            !.onDisconnect = TRUE,
                                            !.timeoutId = (timeout > 0),
                                            !.delay = IF timeout > 0 THEN timeout ELSE 0]]
  /\ posted' = Append(posted, <<i, type>>)
  /\ UNCHANGED <<options, port, arrived, serverVars, call, libVars>>

\* a messageHandler that would clear the timer only when the invocation ends
MessageHandlerKeepsTimer(o, rtype) ==
  LET cleared == [o EXCEPT !.timeoutId = FALSE] IN
  IF rtype = "error"
    THEN ObsError([cleared EXCEPT !.isCompleted = TRUE], "error:response", ResponseError)
  ELSE IF rtype = "stopped"
    THEN ObsEnd([cleared EXCEPT !.isCompleted = TRUE], "complete")
  ELSE LET nexted == ObsNext(o, IF rtype = "data" THEN "next:data" ELSE "next:started") IN
       IF o.type # "subscription"
         THEN ObsEnd([nexted EXCEPT !.isCompleted = TRUE, !.timeoutId = FALSE], "complete")
         ELSE nexted

\* a messageHandler that would not complete a query or mutation on its result
MessageHandlerNoComplete(o, rtype) ==
  LET cleared == [o EXCEPT !.timeoutId = FALSE] IN
  IF rtype = "error"
    THEN ObsError([cleared EXCEPT !.isCompleted = TRUE], "error:response", ResponseError)
  ELSE IF rtype = "stopped"
    THEN ObsEnd([cleared EXCEPT !.isCompleted = TRUE], "complete")
  ELSE ObsNext(cleared, IF rtype = "data" THEN "next:data" ELSE "next:started")

\* messageHandler of invocation i for a response envelope with its id
MessageHandler(o, rtype) ==
  LET cleared == [o EXCEPT !.timeoutId = FALSE] IN
  IF rtype = "error"
    THEN ObsError([cleared EXCEPT !.isCompleted = TRUE], "error:response", ResponseError)
  ELSE IF rtype = "stopped"
    THEN ObsEnd([cleared EXCEPT !.isCompleted = TRUE], "complete")
  ELSE LET nexted == ObsNext(cleared, IF rtype = "data" THEN "next:data" ELSE "next:started") IN
       IF o.type # "subscription"
         THEN ObsEnd([nexted EXCEPT !.isCompleted = TRUE], "complete")
         ELSE nexted

\* messageId of invocation i: generateId() gives every invocation its own id
MessageId(i) == i

\* a message listener that would skip the comparison of the envelope's id
OnMessageNoFilter(o, messageId, id, rtype) == MessageHandler(o, rtype)

\* the message listener of an invocation, called with an envelope of id `id`:
\* if (response.trpc.id !== messageId) return
OnMessage(o, messageId, id, rtype) ==
  IF id # messageId THEN o ELSE MessageHandler(o, rtype)

(***************************************************************************)
(* A response envelope arrives on the channel: port.onMessage calls every  *)
(* registered message listener with it.                                    *)
(***************************************************************************)
Receive(id, rtype) ==
  /\ port = "open"
  /\ arrived < MaxResp
  /\ arrived' = arrived + 1
  /\ LET n == [j \in Invs |->
                IF ops[j].onMessage THEN OnMessage(ops[j], MessageId(j), id, rtype)
                ELSE IF j = id /\ ops[j].type # "none" THEN [ops[j] EXCEPT !.late = @ + 1]
                ELSE ops[j]] IN
       /\ ops' = n
       /\ posted' = posted \o StopsPosted(id, ops[id], n[id])
  /\ UNCHANGED <<options, port, serverVars, call, libVars>>

\* the timer callback of setupTimeout
TimeoutCallback(o) ==
  IF ~o.isCompleted
    THEN Cleanup(ObsError([o EXCEPT !.isCompleted = TRUE], "error:timeout",
                          CreateTimeoutError(timeout, o.path)))
    ELSE o

\* a timer whose callback would reject every invocation that has a timer
TimerFiresAll(i) ==
  /\ ops[i].timeoutId
  /\ ops' = [j \in Invs |-> IF ops[j].timeoutId
                              THEN [TimeoutCallback(ops[j]) EXCEPT !.timeoutId = FALSE]
                              ELSE ops[j]]
  /\ UNCHANGED <<options, port, posted, arrived, serverVars, call, libVars>>

\* the timer of invocation i fires: its callback runs
TimerFires(i) ==
  /\ ops[i].timeoutId
  /\ LET n == [TimeoutCallback(ops[i]) EXCEPT !.timeoutId = FALSE] IN
       /\ ops' = [ops EXCEPT ![i] = n]
       /\ posted' = posted \o StopsPosted(i, ops[i], n)
  /\ UNCHANGED <<options, port, arrived, serverVars, call, libVars>>

\* a disconnectHandler that would only call cleanup()
DisconnectHandlerCleanupOnly(o) == Cleanup(o)

\* disconnectHandler
DisconnectHandler(o) ==
  IF ~o.isCompleted
    THEN Cleanup(ObsError([o EXCEPT !.isCompleted = TRUE], "error:disconnect",
                          CreateDisconnectionError("Port disconnected unexpectedly")))
    ELSE Cleanup(o)

\* the channel disconnects: port.onDisconnect calls the disconnect listeners
PortDisconnects ==
  /\ port = "open"
  /\ port' = "closed"
  /\ ops' = [i \in Invs |-> IF ops[i].onDisconnect THEN DisconnectHandler(ops[i]) ELSE ops[i]]
  /\ UNCHANGED <<options, posted, arrived, serverVars, call, libVars>>

\* the caller unsubscribes from the observable of invocation i
Cancel(i) ==
  /\ ops[i].type # "none"
  /\ LET n == ObsUnsubscribe(ops[i]) IN
       /\ ops' = [ops EXCEPT ![i] = n]
       /\ posted' = posted \o StopsPosted(i, ops[i], n)
  /\ UNCHANGED <<options, port, arrived, serverVars, call, libVars>>

LinkNext ==
  \/ \E i \in Invs, ty \in OpTypes : Invoke(i, ty)
  \/ \E i \in Invs, rt \in ResponseTypes : Receive(i, rt)
  \/ \E i \in Invs : TimerFires(i)
  \/ PortDisconnects
  \/ \E i \in Invs : Cancel(i)

(***************************************************************************)
(* One query or mutation carried end to end: the link serializes the       *)
(* input, the handler deserializes it and calls the procedure, serializes  *)
(* the result, and the link deserializes it for the caller.                *)
(*                                                                         *)
(* A payload is the sequence of the conversions applied to a value of      *)
(* Values, outermost first: no equation between serialize and deserialize  *)
(* is assumed.                                                             *)
(***************************************************************************)
Values == {"k", "v", "x"}

\* options.transformer of the link and of the handler: absent, or a transformer
Transformers == {"absent", "custom"}

\* transformer.serialize(data): defaultTransformer passes the data through
Serialize(t, data) == IF t = "custom" THEN <<"serialize">> \o data ELSE data

\* transformer.deserialize(data): defaultTransformer passes the data through
Deserialize(t, data) == IF t = "custom" THEN <<"deserialize">> \o data ELSE data

NoCall ==
  [stage |-> "none", method |-> "query", link |-> "absent", handler |-> "absent",
   input |-> <<>>,        \* op.input
   params |-> <<>>,       \* trpcMessage.params.input, as posted by the link
   procInput |-> <<>>,    \* the argument the procedure is called with
   procResult |-> <<>>,   \* the value the procedure returned
   data |-> <<>>,         \* response.trpc.result.data, as posted by the handler
   result |-> <<>>]       \* result.data given to the caller by observer.next

CallInit ==
  call \in {[NoCall EXCEPT !.stage = "invoked", !.method = m, !.link = tl, !.handler = th,
                           !.input = <<v>>] :
              m \in {"query", "mutation"}, tl \in Transformers, th \in Transformers,
              v \in Values}

\* the link builds trpcMessage and posts it
LinkRequest ==
  /\ call.stage = "invoked"
  /\ call' = [call EXCEPT !.stage = "request",
                          !.params = Serialize(call.link, call.input)]
  /\ UNCHANGED <<serverVars, linkVars, libVars>>

\* the handler deserializes params.input and calls the procedure with it
HandlerCall ==
  /\ call.stage = "request"
  /\ call' = [call EXCEPT !.stage = "procedure",
                          !.procInput = Deserialize(call.handler, call.params)]
  /\ UNCHANGED <<serverVars, linkVars, libVars>>

\* the procedure returned result: the handler posts it in a data envelope
HandlerResponse(result) ==
  /\ call.stage = "procedure"
  /\ call' = [call EXCEPT !.stage = "response",
                          !.procResult = <<result>>,
                          !.data = Serialize(call.handler, <<result>>)]
  /\ UNCHANGED <<serverVars, linkVars, libVars>>

\* a link that would hand the data of the envelope to the caller as it is
LinkResultRaw ==
  /\ call.stage = "response"
  /\ call' = [call EXCEPT !.stage = "resolved", !.result = call.data]
  /\ UNCHANGED <<serverVars, linkVars, libVars>>

\* the link's messageHandler gets the data envelope and calls observer.next
LinkResult ==
  /\ call.stage = "response"
  /\ call' = [call EXCEPT !.stage = "resolved",
                          !.result = Deserialize(call.link, call.data)]
  /\ UNCHANGED <<serverVars, linkVars, libVars>>

CallNext ==
  \/ LinkRequest
  \/ HandlerCall
  \/ \E v \in Values : HandlerResponse(v)
  \/ LinkResult

(***************************************************************************)
(* Resolution of a dotted path against the caller (lines 335-370 of the    *)
(* handler): the path is split at the dots and the tree is walked one      *)
(* part at a time; then the node reached is called.                        *)
(*                                                                         *)
(* A tree is given by the paths of its routers (objects) and of its        *)
(* procedures (functions); the caller itself is the router at <<>>.        *)
(***************************************************************************)
MaxDepth == 3

Segments == {"a", "b", "c"}

\* path.split("."): the parts of the paths sent to the dispatcher
Paths == UNION {[1..n -> Segments] : n \in 1..MaxDepth}

Trees ==
  [full      |-> [routers |-> {<<>>, <<"a">>, <<"a", "b">>},
                  procedures |-> {<<"a", "b", "c">>}],
   noC       |-> [routers |-> {<<>>, <<"a">>, <<"a", "b">>},
                  procedures |-> {<<"a", "b", "a">>}],
   noB       |-> [routers |-> {<<>>, <<"a">>},
                  procedures |-> {<<"a", "c">>}],
   noA       |-> [routers |-> {<<>>, <<"b">>},
                  procedures |-> {<<"b", "c">>}],
   leafB     |-> [routers |-> {<<>>, <<"a">>},
                  procedures |-> {<<"a", "b">>}],
   leafA     |-> [routers |-> {<<>>},
                  procedures |-> {<<"a">>}]]

TreeNames == DOMAIN Trees

\* typeof of the node at a path of the tree ("undefined" if there is none)
TypeOf(tree, node) ==
  IF node \in Trees[tree].routers THEN "object"
  ELSE IF node \in Trees[tree].procedures THEN "function"
  ELSE "undefined"

\* a TRPCError thrown by the dispatcher: its code, and its message as the
\* template literal with the values of its holes ("" for a hole it has not)
PathError(code, template, path, part) ==
  [code |-> code, message |-> [template |-> template, path |-> path, part |-> part]]

NoPathError == PathError("none", "", <<>>, "")

NoWalk ==
  [tree |-> "full", path |-> <<>>, outcome |-> "none",
   pos |-> 0,               \* parts of the path the loop has gone through
   procedure |-> <<>>,      \* let procedure: the node reached, by its path in the tree
   error |-> NoPathError,   \* the error thrown into the catch block
   invoked |-> FALSE]       \* a procedure has been called

WalkInit ==
  walk \in {[NoWalk EXCEPT !.tree = t, !.path = pth, !.outcome = "walking"] :
              t \in TreeNames, pth \in Paths}

\* one iteration of for (const part of pathParts)
WalkStep ==
  LET part == walk.path[walk.pos + 1]
      next == Append(walk.procedure, part) IN
  /\ walk.outcome = "walking"
  /\ walk.pos < Len(walk.path)
  /\ walk' =
       IF TypeOf(walk.tree, walk.procedure) # "object"
         THEN [walk EXCEPT !.outcome = "thrown",
                           !.error = PathError("NOT_FOUND",
                              "Procedure ${path} not found - invalid path at ${part}",
                              walk.path, part)]
       ELSE IF TypeOf(walk.tree, next) = "undefined"
         THEN [walk EXCEPT !.outcome = "thrown",
                           !.error = PathError("NOT_FOUND", "Procedure ${path} not found",
                                               walk.path, "")]
       ELSE [walk EXCEPT !.pos = @ + 1, !.procedure = next]
  /\ UNCHANGED <<serverVars, linkVars, call, fault, perf, auxVars>>

\* after the loop: procedure(deserializedInput); calling a node that is not a
\* function throws a TypeError, which the catch block turns into an internal error
CallProcedure ==
  /\ walk.outcome = "walking"
  /\ walk.pos = Len(walk.path)
  /\ walk' =
       IF TypeOf(walk.tree, walk.procedure) = "function"
         THEN [walk EXCEPT !.outcome = "called", !.invoked = TRUE]
         ELSE [walk EXCEPT !.outcome = "thrown",
                           !.error = PathError("INTERNAL_SERVER_ERROR",
                                               "procedure is not a function", <<>>, "")]
  /\ UNCHANGED <<serverVars, linkVars, call, fault, perf, auxVars>>

PathNext == WalkStep \/ CallProcedure

(***************************************************************************)
(* Errors across the boundary (errors.ts): formatTRPCError on the          *)
(* dispatcher's side and the error branch of the link's messageHandler.    *)
(***************************************************************************)
\* TRPC_ERROR_CODE_KEY
ErrorCodeKeys ==
  {"PARSE_ERROR", "BAD_REQUEST", "UNAUTHORIZED", "PAYMENT_REQUIRED", "FORBIDDEN",
   "NOT_FOUND", "TIMEOUT", "CONFLICT", "PRECONDITION_FAILED", "PAYLOAD_TOO_LARGE",
   "UNPROCESSABLE_CONTENT", "TOO_MANY_REQUESTS", "CLIENT_CLOSED_REQUEST",
   "INTERNAL_SERVER_ERROR", "NOT_IMPLEMENTED", "BAD_GATEWAY", "SERVICE_UNAVAILABLE",
   "GATEWAY_TIMEOUT", "METHOD_NOT_SUPPORTED", "UNSUPPORTED_MEDIA_TYPE"}

JSON_RPC_ERROR_CODES ==
  [PARSE_ERROR |-> -32700, INVALID_REQUEST |-> -32600, METHOD_NOT_FOUND |-> -32601,
   INVALID_PARAMS |-> -32602, INTERNAL_ERROR |-> -32603, SERVER_ERROR |-> -32000]

\* statusMap of getHTTPStatusFromTRPCError
statusMap ==
  [PARSE_ERROR |-> 400, BAD_REQUEST |-> 400, UNAUTHORIZED |-> 401, PAYMENT_REQUIRED |-> 402,
   FORBIDDEN |-> 403, NOT_FOUND |-> 404, TIMEOUT |-> 408, CONFLICT |-> 409,
   PRECONDITION_FAILED |-> 412, PAYLOAD_TOO_LARGE |-> 413, UNPROCESSABLE_CONTENT |-> 422,
   TOO_MANY_REQUESTS |-> 429, CLIENT_CLOSED_REQUEST |-> 499, INTERNAL_SERVER_ERROR |-> 500,
   NOT_IMPLEMENTED |-> 501, BAD_GATEWAY |-> 502, SERVICE_UNAVAILABLE |-> 503,
   GATEWAY_TIMEOUT |-> 504, METHOD_NOT_SUPPORTED |-> 405, UNSUPPORTED_MEDIA_TYPE |-> 415]

\* statusMap[code] || 500
getHTTPStatusFromTRPCError(code) ==
  IF code \in DOMAIN statusMap THEN statusMap[code] ELSE 500

\* codeMap of getJSONRPCErrorCode
codeMap ==
  [PARSE_ERROR |-> JSON_RPC_ERROR_CODES.PARSE_ERROR,
   BAD_REQUEST |-> JSON_RPC_ERROR_CODES.INVALID_REQUEST,
   NOT_FOUND |-> JSON_RPC_ERROR_CODES.METHOD_NOT_FOUND,
   INTERNAL_SERVER_ERROR |-> JSON_RPC_ERROR_CODES.INTERNAL_ERROR,
   METHOD_NOT_SUPPORTED |-> JSON_RPC_ERROR_CODES.METHOD_NOT_FOUND]

\* a getJSONRPCErrorCode whose map would lack the entry of NOT_FOUND
getJSONRPCErrorCodeNoNotFound(code) ==
  IF code \in DOMAIN codeMap \ {"NOT_FOUND"} THEN codeMap[code]
  ELSE JSON_RPC_ERROR_CODES.INTERNAL_ERROR

\* codeMap[code] || JSON_RPC_ERROR_CODES.INTERNAL_ERROR
getJSONRPCErrorCode(code) ==
  IF code \in DOMAIN codeMap THEN codeMap[code] ELSE JSON_RPC_ERROR_CODES.INTERNAL_ERROR

Undefined == "undefined"

Messages == {"not allowed", "no such key"}
Stacks == {"at get (storage.ts:10)", "at set (storage.ts:20)"}
Causes == {"quota exceeded", "locked"}

\* what a procedure can throw: a TRPCError, another Error, or a value that is
\* no Error (text is its String() form)
Thrown ==
  {[kind |-> "TRPCError", code |-> c, message |-> m, stack |-> st, cause |-> ca, text |-> ""] :
     c \in ErrorCodeKeys, m \in Messages, st \in Stacks, ca \in Causes}
  \cup {[kind |-> "Error", code |-> Undefined, message |-> m, stack |-> st, cause |-> Undefined,
          text |-> ""] : m \in Messages, st \in Stacks}
  \cup {[kind |-> "value", code |-> Undefined, message |-> Undefined, stack |-> Undefined,
          cause |-> Undefined, text |-> t] : t \in {"42", "boom"}}

\* let trcpError of formatTRPCError: the error itself, or a new TRPCError
\* around an Error or around any other value
AsTRPCError(error) ==
  IF error.kind = "TRPCError" THEN error
  ELSE [kind |-> "TRPCError", code |-> "INTERNAL_SERVER_ERROR",
        message |-> IF error.kind = "Error" THEN error.message ELSE error.text,
        stack |-> "at formatTRPCError (errors.ts)", cause |-> "the value thrown", text |-> ""]

NoData ==
  [present |-> FALSE, code |-> Undefined, httpStatus |-> 0, stack |-> Undefined,
   path |-> <<>>, cause |-> Undefined]

\* a formatTRPCError that would always include stack and cause
formatTRPCErrorWithStack(error, path, isDev) ==
  LET trcpError == AsTRPCError(error) IN
  [code |-> getJSONRPCErrorCode(trcpError.code),
   message |-> trcpError.message,
   data |-> [present |-> TRUE, code |-> trcpError.code,
             httpStatus |-> getHTTPStatusFromTRPCError(trcpError.code),
             stack |-> trcpError.stack, path |-> path, cause |-> trcpError.cause]]

\* formatTRPCError(error, path), isDev being import.meta.env?.DEV ?? false
formatTRPCError(error, path, isDev) ==
  LET trcpError == AsTRPCError(error) IN
  [code |-> getJSONRPCErrorCode(trcpError.code),
   message |-> trcpError.message,
   data |-> [present |-> TRUE, code |-> trcpError.code,
             httpStatus |-> getHTTPStatusFromTRPCError(trcpError.code),
             stack |-> IF isDev THEN trcpError.stack ELSE Undefined,
             path |-> path,
             cause |-> IF isDev THEN trcpError.cause ELSE Undefined]]

NoEnvelope == [code |-> 0, message |-> Undefined, data |-> NoData]

\* a reconstruction that would not read data.code
TrpcErrorIgnoresCode(error) ==
  [code |-> "INTERNAL_SERVER_ERROR", message |-> error.message, cause |-> error.data]

\* the link's new TRPCError({code: error.data?.code ?? "INTERNAL_SERVER_ERROR",
\* message: error.message, cause: error.data})
TrpcErrorOfResponse(error) ==
  [code |-> IF error.data.present /\ error.data.code # Undefined
              THEN error.data.code ELSE "INTERNAL_SERVER_ERROR",
   message |-> error.message,
   cause |-> error.data]

NoErr ==
  [stage |-> "none", isDev |-> FALSE,
   thrown |-> CHOOSE t \in Thrown : TRUE,   \* what was thrown
   path |-> <<>>,                            \* the path of the request
   envelope |-> NoEnvelope,                  \* response.trpc.error, as posted
   bare |-> FALSE,                           \* the envelope reached the link without data
   trcpError |-> [code |-> Undefined, message |-> Undefined, cause |-> NoData]]

ErrInit ==
  fault \in {[NoErr EXCEPT !.stage = "thrown", !.isDev = d, !.thrown = t, !.path = <<"a", "b">>] :
             d \in BOOLEAN, t \in Thrown}

\* the dispatcher formats the error and posts the failure envelope
FormatError ==
  /\ fault.stage = "thrown"
  /\ fault' = [fault EXCEPT !.stage = "posted",
                        !.envelope = formatTRPCError(fault.thrown, fault.path, fault.isDev)]
  /\ UNCHANGED <<serverVars, linkVars, call, walk, perf, auxVars>>

\* a failure envelope that reaches the link with no data member
BareFailure ==
  /\ fault.stage = "posted"
  /\ ~fault.bare
  /\ fault' = [fault EXCEPT !.bare = TRUE, !.envelope.data = NoData]
  /\ UNCHANGED <<serverVars, linkVars, call, walk, perf, auxVars>>

\* the link's messageHandler reconstructs the error of the envelope
ReconstructError ==
  /\ fault.stage = "posted"
  /\ fault' = [fault EXCEPT !.stage = "received",
                        !.trcpError = TrpcErrorOfResponse(fault.envelope)]
  /\ UNCHANGED <<serverVars, linkVars, call, walk, perf, auxVars>>

ErrorNext == FormatError \/ BareFailure \/ ReconstructError

(***************************************************************************)
(* TRPCDebugger performance tracking (debug.ts): a Map of entries keyed by *)
(* message id and the array entriesOrder of the ids that have ended.       *)
(* The link calls startPerformance once per invocation, with a fresh id,   *)
(* and endPerformance when the invocation ends by a response, a timeout    *)
(* or a disconnect; a cancel calls neither.                                *)
(***************************************************************************)
maxEntries == 100

MaxOps == 102        \* invocations the link makes
MaxInFlight == 1     \* invocations that are pending at the same time
MaxCancelled == 1    \* invocations that are cancelled

NoPerf ==
  [logPerformance |-> FALSE,
   performanceEntries |-> <<>>,   \* Map: id -> the entry has a duration
   entriesOrder |-> <<>>,
   next |-> 1,                    \* the id of the next invocation
   pending |-> {},                \* ids of the invocations that are pending
   cancelled |-> 0]               \* invocations that were cancelled

PerfInit ==
  perf \in {[NoPerf EXCEPT !.logPerformance = b] : b \in BOOLEAN}

\* the keys of the Map
Keys(m) == DOMAIN m

\* Map.set(id, entry)
EntrySet(m, id, ended) == [k \in Keys(m) \cup {id} |-> IF k = id THEN ended ELSE m[k]]

\* Map.delete(id)
EntryDelete(m, id) == [k \in Keys(m) \ {id} |-> m[k]]

\* startPerformance(id, operation, path)
startPerformance(d, id) ==
  IF ~d.logPerformance THEN d
  ELSE [d EXCEPT !.performanceEntries = EntrySet(@, id, FALSE)]

\* endPerformance(id, status, error)
endPerformance(d, id) ==
  IF ~d.logPerformance THEN d
  ELSE IF id \notin Keys(d.performanceEntries) THEN d
  ELSE LET ended == EntrySet(d.performanceEntries, id, TRUE)
           order == Append(d.entriesOrder, id) IN
       IF Cardinality(Keys(ended)) > maxEntries
         THEN [d EXCEPT !.performanceEntries = EntryDelete(ended, Head(order)),
                        !.entriesOrder = Tail(order)]
         ELSE [d EXCEPT !.performanceEntries = ended, !.entriesOrder = order]

\* an invocation starts: logger.startPerformance(messageId, op.type, op.path)
StartOperation ==
  /\ perf.next <= MaxOps
  /\ Cardinality(perf.pending) < MaxInFlight
  /\ perf' = [startPerformance(perf, perf.next) EXCEPT !.next = @ + 1,
                                                       !.pending = @ \cup {perf.next}]
  /\ UNCHANGED <<serverVars, linkVars, call, walk, fault, auxVars>>

\* an invocation ends by a response, a timeout or a disconnect: logger.endPerformance
EndOperation(id) ==
  /\ id \in perf.pending
  /\ perf' = [endPerformance(perf, id) EXCEPT !.pending = @ \ {id}]
  /\ UNCHANGED <<serverVars, linkVars, call, walk, fault, auxVars>>

\* an invocation is cancelled by its caller: the teardown calls cleanup() only
CancelOperation(id) ==
  /\ id \in perf.pending
  /\ perf.cancelled < MaxCancelled
  /\ perf' = [perf EXCEPT !.pending = @ \ {id}, !.cancelled = @ + 1]
  /\ UNCHANGED <<serverVars, linkVars, call, walk, fault, auxVars>>

PerfNext ==
  \/ StartOperation
  \/ \E id \in 1..MaxOps : EndOperation(id)
  \/ \E id \in 1..MaxOps : CancelOperation(id)

(***************************************************************************)
(* The link with its logger (trpc.ts, debug.ts): every handler of one      *)
(* invocation as the sequence of its statements, the calls of the          *)
(* TRPCDebugger among them. A statement that throws ends the handler.      *)
(***************************************************************************)
DebugLevel == [NONE |-> 0, ERROR |-> 1, WARN |-> 2, INFO |-> 3, DEBUG |-> 4, TRACE |-> 5]

\* new TRPCDebugger({enabled, level, logPerformance}) with the console as logger
Debugger(enabled, level, logPerformance) ==
  [enabled |-> enabled, level |-> level, logPerformance |-> logPerformance,
   performanceEntries |-> <<>>, entriesOrder |-> <<>>,
   lines |-> <<>>,          \* the lines given to the console
   threw |-> FALSE]         \* a call of the logger threw

\* every debugger the options of the link can give
Debuggers ==
  {Debugger(e, l, lp) : e \in BOOLEAN, l \in 0..5, lp \in BOOLEAN}

\* isLevelEnabled(level)
isLevelEnabled(d, level) == d.enabled /\ level <= d.level

\* a console whose methods would throw
LogLineThrows(d, level, what) ==
  IF isLevelEnabled(d, level) THEN [d EXCEPT !.threw = TRUE] ELSE d

\* error(), warn(), info(), debug(), trace(): one line on the console if the
\* level is enabled
LogLine(d, level, what) ==
  IF isLevelEnabled(d, level) THEN [d EXCEPT !.lines = Append(@, what)] ELSE d

\* logOperation(op) and logMessage(direction, message)
logOperation(d) == LogLine(d, DebugLevel.DEBUG, "Operation")
logMessage(d, direction) == LogLine(d, DebugLevel.TRACE, direction)

\* startPerformance with its trace line
StartPerformanceLogged(d, id) ==
  IF ~d.logPerformance THEN d
  ELSE LogLine(startPerformance(d, id), DebugLevel.TRACE, "Performance tracking started")

\* endPerformance with its info line
EndPerformanceLogged(d, id) ==
  IF ~d.logPerformance \/ id \notin Keys(d.performanceEntries) THEN d
  ELSE LET told == LogLine(d, DebugLevel.INFO, "Performance") IN
       IF told.threw THEN told ELSE endPerformance(told, id)

\* the state of one run: the closure of the invocation, the envelopes posted,
\* the debugger, and the closure as it was when the request was posted
Run(o, d) == [op |-> o, posted |-> <<>>, logger |-> d, atPost |-> NoOp]

\* a subscribe function that would post the request before it adds the listeners
InvokeBodyPostsFirst ==
  <<"logOperation", "startPerformance", "logMessage send", "postMessage", "addListeners",
    "setupTimeout">>

\* the statements of the observable's subscribe function, lines 76-210
InvokeBody ==
  <<"logOperation", "startPerformance", "addListeners", "logMessage send", "postMessage",
    "setupTimeout">>

\* the statements of the timer callback, lines 102-115
TimeoutBody(o) ==
  IF o.isCompleted THEN <<>>
  ELSE <<"isCompleted", "endPerformance", "error Request timeout", "observer.error timeout",
         "cleanup">>

\* the statements of messageHandler for an envelope with the id of the
\* invocation, lines 124-175
MessageBody(o, rtype) ==
  <<"clearTimeout", "logMessage receive">> \o
  (IF rtype = "error"
     THEN <<"isCompleted", "endPerformance", "error Response error", "observer.error response">>
   ELSE IF rtype = "stopped"
     THEN <<"isCompleted", "endPerformance", "debug Subscription stopped", "observer.complete">>
   ELSE <<IF rtype = "data" THEN "observer.next data" ELSE "observer.next started">> \o
        (IF o.type # "subscription"
           THEN <<"isCompleted", "endPerformance", "debug Operation completed",
                  "observer.complete">>
           ELSE <<>>))

\* the statements of disconnectHandler, lines 178-189
DisconnectBody(o) ==
  (IF o.isCompleted THEN <<>>
   ELSE <<"isCompleted", "endPerformance", "error Port disconnected",
          "observer.error disconnect">>) \o <<"cleanup">>

\* the statements of the teardown function when the caller unsubscribes,
\* lines 213-236
TeardownBody(o) ==
  IF o.unsubscribed THEN <<>>
  ELSE <<"unsubscribed">> \o
       (IF o.type = "subscription"
          THEN (IF o.isCompleted THEN <<>>
                ELSE <<"isCompleted", "debug Stopping subscription", "postMessage stop">>)
          ELSE <<"isCompleted">>) \o <<"cleanup">>

\* one statement
Statement(r, st) ==
  LET o == r.op
      d == r.logger
      to(n) == [r EXCEPT !.op = n, !.posted = @ \o StopsPosted(1, o, n)]
      log(n) == [r EXCEPT !.logger = n]
  IN
  CASE st = "logOperation" -> log(logOperation(d))
    [] st = "startPerformance" -> log(StartPerformanceLogged(d, 1))
    [] st = "endPerformance" -> log(EndPerformanceLogged(d, 1))
    [] st = "logMessage send" -> log(logMessage(d, "Message send"))
    [] st = "logMessage receive" -> log(logMessage(d, "Message receive"))
    [] st \in {"error Request timeout", "error Response error", "error Port disconnected"} ->
         log(LogLine(d, DebugLevel.ERROR, st))
    [] st \in {"debug Subscription stopped", "debug Operation completed",
               "debug Stopping subscription"} ->
         log(LogLine(d, DebugLevel.DEBUG, st))
    [] st = "addListeners" -> to([o EXCEPT !.onMessage = TRUE, !.onDisconnect = TRUE])
    [] st = "postMessage" -> [r EXCEPT !.posted = Append(@, <<1, o.type>>), !.atPost = o]
    [] st = "setupTimeout" ->
         to(IF timeout > 0 /\ ~o.isCompleted
              THEN [o EXCEPT !.timeoutId = TRUE, !.delay = timeout] ELSE o)
    [] st = "clearTimeout" -> to([o EXCEPT !.timeoutId = FALSE])
    [] st = "isCompleted" -> to([o EXCEPT !.isCompleted = TRUE])
    [] st = "unsubscribed" -> to([o EXCEPT !.unsubscribed = TRUE])
    [] st = "postMessage stop" -> to([o EXCEPT !.stops = @ + 1])
    [] st = "cleanup" -> to(Cleanup(o))
    [] st = "observer.next data" -> to(ObsNext(o, "next:data"))
    [] st = "observer.next started" -> to(ObsNext(o, "next:started"))
    [] st = "observer.complete" -> to(ObsEnd(o, "complete"))
    [] st = "observer.error timeout" ->
         to(ObsError(o, "error:timeout", CreateTimeoutError(timeout, o.path)))
    [] st = "observer.error response" -> to(ObsError(o, "error:response", ResponseError))
    [] st = "observer.error disconnect" ->
         to(ObsError(o, "error:disconnect",
                     CreateDisconnectionError("Port disconnected unexpectedly")))

\* the statements of a handler in order, up to one that throws
RECURSIVE Execute(_, _)
Execute(r, body) ==
  IF body = <<>> \/ r.logger.threw THEN r
  ELSE Execute(Statement(r, Head(body)), Tail(body))

\* a handler called by the event loop: what it threw is reported and gone
Handler(r, body) == [Execute(r, body) EXCEPT !.logger.threw = FALSE]

NoDbg ==
  [stage |-> "none",
   channel |-> "open",
   loud |-> Run(NoOp, Debugger(FALSE, 0, FALSE)),    \* the run with the logger of the options
   quiet |-> Run(NoOp, Debugger(FALSE, 0, FALSE)),   \* the run with the logger off
   plain |-> NoOp,                                   \* the closure as the handlers of the
                                                     \* link without logger leave it
   events |-> 0]

MaxEvents == 3     \* responses, timer firings, cancels and disconnects of the run

DbgInit ==
  dbg \in {[NoDbg EXCEPT !.stage = "created", !.loud = Run(NoOp, d)] : d \in Debuggers}

\* the same handler in both runs
Both(loudBody, quietBody, plain) ==
  [dbg EXCEPT !.loud = Handler(@, loudBody), !.quiet = Handler(@, quietBody),
              !.plain = plain, !.events = @ + 1]

\* the caller subscribes to the observable of a query, mutation or subscription
DbgInvoke(type) ==
  LET typed == [dbg EXCEPT !.loud.op = [NoOp EXCEPT !.type = type, !.path = OpPath(1)],
                           !.quiet.op = [NoOp EXCEPT !.type = type, !.path = OpPath(1)]] IN
  /\ dbg.stage = "created"
  /\ type \in OpTypes
  /\ dbg' = [typed EXCEPT !.stage = "invoked",
                          !.loud = Handler(@, InvokeBody), !.quiet = Handler(@, InvokeBody),
                          !.plain = [NoOp EXCEPT !.type = type, !.path = OpPath(1),
                                                 !.onMessage = TRUE, !.onDisconnect = TRUE,
                                                 !.timeoutId = (timeout > 0),
                                                 !.delay = IF timeout > 0 THEN timeout ELSE 0]]
  /\ UNCHANGED othersThanDbg

\* an envelope with the id of the invocation arrives
DbgReceive(rtype) ==
  LET body(o) == IF o.onMessage THEN MessageBody(o, rtype) ELSE <<>> IN
  /\ dbg.stage = "invoked" /\ dbg.channel = "open" /\ dbg.events < MaxEvents
  /\ rtype \in ResponseTypes
  /\ dbg' = Both(body(dbg.loud.op), body(dbg.quiet.op),
               IF dbg.plain.onMessage THEN MessageHandler(dbg.plain, rtype) ELSE dbg.plain)
  /\ UNCHANGED othersThanDbg

\* the timer fires
DbgTimerFires ==
  LET body(o) == TimeoutBody(o) IN
  /\ dbg.stage = "invoked" /\ dbg.events < MaxEvents
  /\ dbg.loud.op.timeoutId \/ dbg.quiet.op.timeoutId
  /\ dbg' = [Both(body(dbg.loud.op), body(dbg.quiet.op),
                [TimeoutCallback(dbg.plain) EXCEPT !.timeoutId = FALSE])
               EXCEPT !.loud.op.timeoutId = FALSE, !.quiet.op.timeoutId = FALSE]
  /\ UNCHANGED othersThanDbg

\* the channel disconnects
DbgDisconnects ==
  LET body(o) == IF o.onDisconnect THEN DisconnectBody(o) ELSE <<>> IN
  /\ dbg.stage = "invoked" /\ dbg.channel = "open" /\ dbg.events < MaxEvents
  /\ dbg' = [Both(body(dbg.loud.op), body(dbg.quiet.op),
                IF dbg.plain.onDisconnect THEN DisconnectHandler(dbg.plain) ELSE dbg.plain)
               EXCEPT !.channel = "closed"]
  /\ UNCHANGED othersThanDbg

\* the caller unsubscribes
DbgCancel ==
  LET body(o) == TeardownBody(o) IN
  /\ dbg.stage = "invoked" /\ dbg.events < MaxEvents
  /\ dbg' = Both(body(dbg.loud.op), body(dbg.quiet.op), ObsUnsubscribe(dbg.plain))
  /\ UNCHANGED othersThanDbg

DbgNext ==
  \/ \E ty \in OpTypes : DbgInvoke(ty)
  \/ \E rt \in ResponseTypes : DbgReceive(rt)
  \/ DbgTimerFires
  \/ DbgDisconnects
  \/ DbgCancel

(***************************************************************************)
(* generateId (core.ts):                                                   *)
(*   `${Date.now()}-${Math.random().toString(36).substring(2, 9)}`         *)
(* Math.random() gives any number of [0, 1); the number is the sequence of *)
(* its base-36 digits after the point, as toString(36) writes them.        *)
(***************************************************************************)
MaxClock == 2      \* milliseconds that pass
MaxIds == 3        \* calls of generateId

\* values of Math.random(): 0 (no digit after the point), a number of one
\* digit, one of seven digits, and two numbers that differ in their eighth digit
Randoms ==
  {<<>>, <<"k">>, [i \in 1..7 |-> "a"],
   [i \in 1..8 |-> "a"], [i \in 1..8 |-> IF i = 8 THEN "k" ELSE "a"]}

\* "0.xxxx".substring(2, 9): at most seven characters after the point
Substring29(digits) == SubSeq(digits, 1, IF Len(digits) < 7 THEN Len(digits) ELSE 7)

\* generateId() at time now with the random number r
generateId(now, r) == <<now, Substring29(r)>>

NoGen == [now |-> 0, ids |-> <<>>]

\* Date.now() advances
Tick ==
  /\ gen.now < MaxClock
  /\ gen' = [gen EXCEPT !.now = @ + 1]
  /\ UNCHANGED othersThanGen

\* an invocation starts: const messageId = generateId()
GenerateId(r) ==
  /\ Len(gen.ids) < MaxIds
  /\ r \in Randoms
  /\ gen' = [gen EXCEPT !.ids = Append(@, generateId(gen.now, r))]
  /\ UNCHANGED othersThanGen

GenNext == Tick \/ \E r \in Randoms : GenerateId(r)

(***************************************************************************)
(* The channel of an invocation (trpc.ts line 76, wxt.ts wxtLink):         *)
(*   extensionLink: options.port || browserAPI.runtime.connect(...) in the *)
(*   subscribe function of every operation;                                *)
(*   wxtLink: options.port || options.adapter.runtime.connect(...) once,   *)
(*   then extensionLink({...options, port}).                               *)
(***************************************************************************)
MaxLinks == 2      \* calls of the link factory
MaxCalls == 2      \* invocations made through the links

LinkVariants == {"extensionLink", "wxtLink"}

\* the ways an invocation ends other than by a disconnect of its channel
EndCauses == {"response", "failure", "stopped", "timeout", "cancel"}

\* a channel: connected or not, who disconnected it, the invocations whose
\* listeners it holds
NewPort == [state |-> "connected", closedBy |-> "none", listeners |-> {}]

NoChan ==
  [variant |-> "extensionLink",
   supplied |-> FALSE,     \* options.port is given: it is channel 1
   links |-> <<>>,         \* link -> options.port of the extensionLink behind it, 0 if absent
   connects |-> 0,         \* calls of runtime.connect
   ports |-> <<>>,         \* the channels, in the order they were opened
   invs |-> <<>>]          \* the invocations, in order

ChanInit ==
  chan \in {[NoChan EXCEPT !.variant = v, !.supplied = sup,
                           !.ports = IF sup THEN <<NewPort>> ELSE <<>>] :
            v \in LinkVariants, sup \in BOOLEAN}

\* runtime.connect(): one more channel
Connect(c) == [c EXCEPT !.connects = @ + 1, !.ports = Append(@, NewPort)]

\* the link factory is called: extensionLink(options) or wxtLink(options)
CreateLink ==
  /\ Len(chan.links) < MaxLinks
  /\ chan' =
       IF chan.variant = "wxtLink" /\ ~chan.supplied
         THEN LET c == Connect(chan) IN [c EXCEPT !.links = Append(@, Len(c.ports))]
         ELSE [chan EXCEPT !.links = Append(@, IF chan.supplied THEN 1 ELSE 0)]
  /\ UNCHANGED othersThanChan

\* an operation goes through link l: the channel is chosen, the listeners are
\* added, the request is posted
InvokeLink(l) ==
  /\ l \in 1..Len(chan.links)
  /\ Len(chan.invs) < MaxCalls
  /\ LET c == IF chan.links[l] # 0 THEN chan ELSE Connect(chan)
         p == IF chan.links[l] # 0 THEN chan.links[l] ELSE Len(c.ports)
         k == Len(chan.invs) + 1 IN
       /\ c.ports[p].state = "connected"
       /\ chan' = [c EXCEPT !.ports[p].listeners = @ \cup {k},
                            !.invs = Append(@, [link |-> l, port |-> p, cause |-> "none"])]
  /\ UNCHANGED othersThanChan

\* an end of invocation that would disconnect its channel
EndCallDisconnects(k, cause) ==
  /\ k \in 1..Len(chan.invs)
  /\ chan.invs[k].cause = "none"
  /\ cause \in EndCauses
  /\ chan' = [chan EXCEPT !.invs[k].cause = cause,
                          !.ports[chan.invs[k].port] =
                             [state |-> "disconnected", closedBy |-> "link", listeners |-> {}]]
  /\ UNCHANGED othersThanChan

\* invocation k ends by a response, a failure, stopped, its timeout or a
\* cancel: cleanup() removes its listeners from its channel
EndCall(k, cause) ==
  /\ k \in 1..Len(chan.invs)
  /\ chan.invs[k].cause = "none"
  /\ cause \in EndCauses
  /\ chan' = [chan EXCEPT !.invs[k].cause = cause,
                          !.ports[chan.invs[k].port].listeners = @ \ {k}]
  /\ UNCHANGED othersThanChan

\* the other side disconnects channel p: the disconnect listeners run
PeerDisconnects(p) ==
  /\ p \in 1..Len(chan.ports)
  /\ chan.ports[p].state = "connected"
  /\ chan' = [chan EXCEPT !.ports[p] = [state |-> "disconnected", closedBy |-> "peer",
                                       listeners |-> {}],
                          !.invs = [k \in 1..Len(chan.invs) |->
                                      IF k \in chan.ports[p].listeners
                                        THEN [chan.invs[k] EXCEPT !.cause = "disconnect"]
                                        ELSE chan.invs[k]]]
  /\ UNCHANGED othersThanChan

ChanNext ==
  \/ CreateLink
  \/ \E l \in 1..MaxLinks : InvokeLink(l)
  \/ \E k \in 1..MaxCalls, c \in EndCauses : EndCall(k, c)
  \/ \E p \in 1..(MaxCalls + MaxLinks + 1) : PeerDisconnects(p)

(***************************************************************************)
(* The adapters (adapters/chrome.ts, polyfill.ts, wxt.ts):                 *)
(* createChromeAdapter, createPolyfillAdapter, createWXTAdapter.           *)
(***************************************************************************)
AdapterVariants == {"chrome", "polyfill", "wxt"}

\* a global API object: absent, without runtime, with a runtime that has no
\* id, with a runtime that has an id
Globals == {"absent", "noRuntime", "noId", "withId"}

\* global.x?.runtime?.id is truthy
HasRuntimeId(g) == g = "withId"

\* what a creation gives: the value it returns, or a thrown Error
Returned(what) == [thrown |-> FALSE, value |-> what]
ThrownError == [thrown |-> TRUE, value |-> "Error"]

\* createChromeAdapter(options)
createChromeAdapter(browserAPI, browser, chrome) ==
  IF browserAPI THEN Returned("options.browserAPI")
  ELSE IF ~HasRuntimeId(chrome) THEN ThrownError
  ELSE Returned("global.chrome")

\* createPolyfillAdapter(options)
createPolyfillAdapter(browserAPI, browser, chrome) ==
  IF browserAPI THEN Returned("options.browserAPI")
  ELSE IF ~HasRuntimeId(browser) THEN ThrownError
  ELSE Returned("global.browser")

\* createWXTAdapter(options): browser = global.browser?.runtime?.id ?
\* global.browser : global.chrome; if (!browser) throw
createWXTAdapter(browserAPI, browser, chrome) ==
  IF browserAPI THEN Returned("options.browserAPI")
  ELSE IF HasRuntimeId(browser) THEN Returned("global.browser")
  ELSE IF chrome = "absent" THEN ThrownError
  ELSE Returned("global.chrome")

NoAdapter ==
  [stage |-> "none", variant |-> "chrome",
   browserAPI |-> FALSE,         \* options.browserAPI is given
   browser |-> "absent",         \* globalThis.browser
   chrome |-> "absent",          \* globalThis.chrome
   outcome |-> Returned("none")]

AdapterInit ==
  adapter \in {[NoAdapter EXCEPT !.stage = "called", !.variant = v, !.browserAPI = api,
                                 !.browser = b, !.chrome = c] :
               v \in AdapterVariants, api \in BOOLEAN, b \in Globals, c \in Globals}

\* the adapter is created
CreateAdapter ==
  /\ adapter.stage = "called"
  /\ adapter' =
       [adapter EXCEPT
          !.stage = "created",
          !.outcome =
             CASE adapter.variant = "chrome" ->
                    createChromeAdapter(adapter.browserAPI, adapter.browser, adapter.chrome)
               [] adapter.variant = "polyfill" ->
                    createPolyfillAdapter(adapter.browserAPI, adapter.browser, adapter.chrome)
               [] adapter.variant = "wxt" ->
                    createWXTAdapter(adapter.browserAPI, adapter.browser, adapter.chrome)]
  /\ UNCHANGED othersThanAdapter

(***************************************************************************)
(* The first statements of the two message listeners (trpc.ts 120-122 and  *)
(* 293-299) for any message of the channel: one with the protocol key and  *)
(* an id, one with the key and no id, one without the key.                 *)
(***************************************************************************)
MaxTraffic == 3    \* messages that arrive on each side

\* message.trpc: undefined (unrelated traffic), an envelope without id, an
\* envelope with the id of the pending invocation or request
Traffic == {"unrelated", "no id", "with id"}

\* what a listener call gave: the closure it left, and the error it raised
Listened(o, raised) == [op |-> o, raised |-> raised]

\* extensionLink.messageHandler(message):
\*   if (response.trpc.id !== messageId) return
ClientListener(o, message, rtype) ==
  IF message = "unrelated" THEN Listened(o, "TypeError")       \* undefined.id
  ELSE IF message = "no id" THEN Listened(o, "none")
  ELSE Listened(MessageHandler(o, rtype), "none")

\* createExtensionHandler.messageHandler(message): the envelopes it goes on
\* to handle, and the error its promise is rejected with
\*   const { trpc } = message; if (!trpc.id) { logger.warn(...); return }
ServerListener(handled, message) ==
  IF message = "unrelated" THEN Listened(handled, "TypeError")  \* undefined.id
  ELSE IF message = "no id" THEN Listened(handled, "none")
  ELSE Listened(handled + 1, "none")

NoStray ==
  [stage |-> "none",
   op |-> NoOp,            \* client: the pending invocation
   handled |-> 0,          \* server: envelopes that went on to be handled
   last |-> "none",        \* the last message that arrived
   before |-> [op |-> NoOp, handled |-> 0],    \* the state before it arrived
   raised |-> "none",      \* the error its listener raised
   count |-> 0]

StrayInit ==
  stray \in {[NoStray EXCEPT !.stage = "pending",
                             !.op = [NoOp EXCEPT !.type = ty, !.path = OpPath(1),
                                                 !.onMessage = TRUE, !.onDisconnect = TRUE,
                                                 !.timeoutId = (timeout > 0),
                                                 !.delay = IF timeout > 0 THEN timeout ELSE 0]] :
             ty \in OpTypes}

\* a message arrives on the client's channel
ClientReceives(message, rtype) ==
  /\ stray.stage = "pending" /\ stray.count < MaxTraffic
  /\ message \in Traffic /\ rtype \in ResponseTypes
  /\ message # "with id" => rtype = "data"
  /\ stray.op.onMessage
  /\ LET l == ClientListener(stray.op, message, rtype) IN
       stray' = [stray EXCEPT !.op = l.op, !.raised = l.raised, !.last = message,
                              !.before = [op |-> stray.op, handled |-> stray.handled],
                              !.count = @ + 1]
  /\ UNCHANGED othersThanStray

\* a message arrives on a channel of the dispatcher
ServerReceives(message) ==
  /\ stray.stage = "pending" /\ stray.count < MaxTraffic
  /\ message \in Traffic
  /\ LET l == ServerListener(stray.handled, message) IN
       stray' = [stray EXCEPT !.handled = l.op, !.raised = l.raised, !.last = message,
                              !.before = [op |-> stray.op, handled |-> stray.handled],
                              !.count = @ + 1]
  /\ UNCHANGED othersThanStray

StrayNext ==
  \/ \E m \in Traffic, rt \in ResponseTypes : ClientReceives(m, rt)
  \/ \E m \in Traffic : ServerReceives(m)

(***************************************************************************)
(* PortConnection (core.ts): handlers and subscriptions keyed by id, the   *)
(* message and disconnect listeners of setupListeners, sendMessage.        *)
(***************************************************************************)
MaxSends == 3      \* calls of sendMessage
MaxArrivals == 3   \* messages that arrive on the port

\* a request of sendMessage: its id, how its promise was settled and by what,
\* the calls of resolve and reject made for it, whether its handler was in
\* the Map when its message was posted, whether it was pending when the port
\* disconnected
NewRequest(id, registered) ==
  [id |-> id, outcome |-> "pending", by |-> "none", settles |-> 0,
   registeredAtPost |-> registered, pendingAtDisconnect |-> FALSE]

NoConn ==
  [port |-> "connected",
   handlers |-> [i \in Ids |-> 0],         \* Map: id -> the request whose handler it holds
   subs |-> [i \in Ids |-> "none"],        \* Map: id -> "held", and "released" once called
   requests |-> <<>>,
   arrivals |-> 0]

\* the handler of request r called with a response of the given type
Settle(req, type) ==
  [req EXCEPT !.outcome = IF @ # "pending" THEN @
                          ELSE IF type = "error" THEN "rejected" ELSE "resolved",
              !.by = IF req.outcome # "pending" THEN @ ELSE type,
              !.settles = @ + 1]

\* a sendMessage that would post the message before it registers the handler
SendMessagePostsFirst(id) ==
  /\ Len(conn.requests) < MaxSends
  /\ id \in Ids
  /\ LET r == Len(conn.requests) + 1
         posted_ == conn.port = "connected" IN
       conn' = [conn EXCEPT
                  !.handlers = IF posted_ THEN [@ EXCEPT ![id] = r] ELSE @,
                  !.requests = Append(@, IF posted_ THEN NewRequest(id, FALSE)
                                         ELSE [NewRequest(id, FALSE) EXCEPT
                                                 !.outcome = "rejected", !.by = "throw"])]
  /\ UNCHANGED othersThanConn

\* sendMessage(message): handlers.set(id, ...), then port.postMessage, which
\* throws on a disconnected port and so rejects the promise
SendMessage(id) ==
  /\ Len(conn.requests) < MaxSends
  /\ id \in Ids
  /\ LET r == Len(conn.requests) + 1
         registered == [conn.handlers EXCEPT ![id] = r] IN
       conn' = [conn EXCEPT
                  !.handlers = registered,
                  !.requests = Append(@, IF conn.port = "connected"
                                           THEN NewRequest(id, registered[id] = r)
                                           ELSE [NewRequest(id, registered[id] = r) EXCEPT
                                                   !.outcome = "rejected", !.by = "throw"])]
  /\ UNCHANGED othersThanConn

\* a message listener that would leave the handler in the Map
OnPortMessageKeepsHandler(id, type) ==
  /\ conn.port = "connected"
  /\ conn.arrivals < MaxArrivals
  /\ id \in Ids /\ type \in {"response", "error"}
  /\ LET h == conn.handlers[id] IN
       conn' = IF h = 0 THEN [conn EXCEPT !.arrivals = @ + 1]
               ELSE [conn EXCEPT !.arrivals = @ + 1,
                                 !.requests[h] = Settle(@, type)]
  /\ UNCHANGED othersThanConn

\* the message listener: the handler of message.id, if any, is called and
\* deleted
OnPortMessage(id, type) ==
  /\ conn.port = "connected"
  /\ conn.arrivals < MaxArrivals
  /\ id \in Ids /\ type \in {"response", "error"}
  /\ LET h == conn.handlers[id] IN
       conn' = IF h = 0 THEN [conn EXCEPT !.arrivals = @ + 1]
               ELSE [conn EXCEPT !.arrivals = @ + 1,
                                 !.requests[h] = Settle(@, type),
                                 !.handlers[id] = 0]
  /\ UNCHANGED othersThanConn

\* addSubscription(id, unsubscribe)
AddSubscription(id) ==
  /\ id \in Ids
  /\ conn.subs[id] = "none"
  /\ conn' = [conn EXCEPT !.subs[id] = "held"]
  /\ UNCHANGED othersThanConn

\* the disconnect listener: every unsubscribe is called, both Maps are cleared
OnPortDisconnect ==
  /\ conn.port = "connected"
  /\ conn' = [conn EXCEPT
                !.port = "disconnected",
                !.subs = [i \in Ids |-> IF @[i] = "held" THEN "released" ELSE @[i]],
                !.handlers = [i \in Ids |-> 0],
                !.requests = [r \in 1..Len(conn.requests) |->
                                [conn.requests[r] EXCEPT
                                   !.pendingAtDisconnect = (conn.requests[r].outcome = "pending")]]]
  /\ UNCHANGED othersThanConn

ConnNext ==
  \/ \E id \in Ids : SendMessage(id)
  \/ \E id \in Ids, ty \in {"response", "error"} : OnPortMessage(id, ty)
  \/ \E id \in Ids : AddSubscription(id)
  \/ OnPortDisconnect

AuxIdle ==
  /\ dbg = NoDbg /\ gen = NoGen /\ chan = NoChan /\ adapter = NoAdapter /\ stray = NoStray
  /\ conn = NoConn

LibIdle == walk = NoWalk /\ fault = NoErr /\ perf = NoPerf /\ AuxIdle

Init == ServerInit /\ LinkIdle /\ call = NoCall /\ LibIdle

Next == ServerNext

Spec == Init /\ [][Next]_vars

LinkSpecInit == LinkInit /\ ServerInit /\ call = NoCall /\ LibIdle

LinkSpec == LinkSpecInit /\ [][LinkNext]_vars

\* the link with timers that fire: a timer armed by setTimeout and not cleared
\* runs its callback
LinkFairSpec ==
  LinkSpecInit /\ [][LinkNext]_vars /\ \A i \in Invs : WF_vars(TimerFires(i))

CallSpecInit == ServerInit /\ LinkIdle /\ CallInit /\ LibIdle

CallSpec == CallSpecInit /\ [][CallNext]_vars

PathSpecInit ==
  ServerInit /\ LinkIdle /\ call = NoCall /\ WalkInit /\ fault = NoErr /\ perf = NoPerf
  /\ AuxIdle

PathSpec == PathSpecInit /\ [][PathNext]_vars

ErrorSpecInit ==
  ServerInit /\ LinkIdle /\ call = NoCall /\ walk = NoWalk /\ ErrInit /\ perf = NoPerf
  /\ AuxIdle

ErrorSpec == ErrorSpecInit /\ [][ErrorNext]_vars

PerfSpecInit ==
  ServerInit /\ LinkIdle /\ call = NoCall /\ walk = NoWalk /\ fault = NoErr /\ PerfInit
  /\ AuxIdle

PerfSpec == PerfSpecInit /\ [][PerfNext]_vars

DebugSpecInit ==
  /\ ServerInit /\ LinkInit /\ call = NoCall
  /\ walk = NoWalk /\ fault = NoErr /\ perf = NoPerf /\ DbgInit /\ gen = NoGen /\ chan = NoChan /\ adapter = NoAdapter
  /\ stray = NoStray /\ conn = NoConn

DebugSpec == DebugSpecInit /\ [][DbgNext]_vars

IdSpec == Init /\ [][GenNext]_vars

ChannelSpecInit ==
  /\ ServerInit /\ LinkIdle /\ call = NoCall
  /\ walk = NoWalk /\ fault = NoErr /\ perf = NoPerf /\ dbg = NoDbg /\ gen = NoGen /\ ChanInit
  /\ adapter = NoAdapter /\ stray = NoStray /\ conn = NoConn

ChannelSpec == ChannelSpecInit /\ [][ChanNext]_vars

AdapterSpecInit ==
  /\ ServerInit /\ LinkIdle /\ call = NoCall
  /\ walk = NoWalk /\ fault = NoErr /\ perf = NoPerf /\ dbg = NoDbg /\ gen = NoGen
  /\ chan = NoChan /\ AdapterInit /\ stray = NoStray /\ conn = NoConn

AdapterSpec == AdapterSpecInit /\ [][CreateAdapter]_vars

TrafficSpecInit ==
  /\ ServerInit /\ LinkInit /\ call = NoCall
  /\ walk = NoWalk /\ fault = NoErr /\ perf = NoPerf /\ dbg = NoDbg /\ gen = NoGen
  /\ chan = NoChan /\ adapter = NoAdapter /\ StrayInit /\ conn = NoConn

TrafficSpec == TrafficSpecInit /\ [][StrayNext]_vars

ConnSpec == Init /\ [][ConnNext]_vars

(***************************************************************************)
(* Properties of the dispatcher (specification Spec).                      *)
(***************************************************************************)
Received == 1..Len(reqs)

PortOf(r) == reqs[r].port

\* number of envelopes of sent[r] whose type is in T
Count(r, T) == Cardinality({i \in 1..Len(sent[r]) : sent[r][i] \in T})

\* the envelope types that end an invocation of the method of request r
TerminalTypes(r) ==
  IF reqs[r].method = "subscription" THEN {"stopped", "error"} ELSE {"data", "error"}

\* the handling of request r has come to its end: messageHandler has returned or
\* has been left by an exception, and a stream it subscribed to is over
HandlingOver(r) ==
  /\ task[r] \in {"done", "crashed"}
  /\ streams[r].st # "active"

\* C2: every request envelope with an id gets exactly one terminal response
\* envelope, unless the channel disconnects or the client cancels first: never
\* more than one, and one once the handling of the request is over.
EveryRequestAnswered ==
  \A r \in Received :
    (portState[PortOf(r)] = "open" /\ ~stopped[r]) =>
      /\ Count(r, TerminalTypes(r)) <= 1
      /\ HandlingOver(r) => Count(r, TerminalTypes(r)) = 1

\* C3: the disconnect listener calls unsubscribe on every stream held in the
\* channel's table and leaves the table empty, also when a release throws.
DisconnectReleasesAll ==
  [][\A p \in Ports :
       (portState[p] = "open" /\ portState'[p] = "closed") =>
         /\ \A s \in Entries(subscriptions[p]) :
              streams'[s].unsubCalled /\ streams'[s].released = 1
         /\ subscriptions'[p] = EmptyTable]_vars

\* C3 witness: a channel was disconnected while its table held two streams, the
\* teardown of one of them throwing, and both have been unsubscribed.
DisconnectReleasedTwo ==
  \E a \in Received, b \in Received :
    /\ a # b /\ PortOf(a) = PortOf(b) /\ portState[PortOf(a)] = "closed"
    /\ ~stopped[a] /\ ~stopped[b]
    /\ streams[a].unsubCalled /\ streams[b].unsubCalled
    /\ streams[a].throws
    /\ subscriptions[PortOf(a)] = EmptyTable

\* C4: once the disconnect listener of a channel has run, the channel's table is
\* empty and no stream subscribed for that channel is unreleased.
NothingSurvivesDisconnect ==
  \A p \in Ports :
    portState[p] = "closed" =>
      /\ subscriptions[p] = EmptyTable
      /\ \A r \in Received :
           (PortOf(r) = p /\ streams[r].st # "none") => streams[r].released = 1

\* C5: the stream of a subscription is never released twice, and it has been
\* released once when it has completed or errored or when a subscription.stop
\* for its id has been handled since its procedure was invoked.
ReleasedExactlyOnce ==
  \A r \in Received :
    streams[r].st # "none" =>
      /\ streams[r].released <= 1
      /\ (streams[r].st \in {"completed", "errored"} \/ stopped[r]) => streams[r].released = 1

\* C6: the envelopes posted for a subscribed stream are one started, then data
\* envelopes, then at most one terminal envelope, and nothing after it.
SubscriptionEnvelopeOrder ==
  \A r \in Received :
    (streams[r].st # "none" /\ sent[r] # <<>>) =>
      /\ sent[r][1] = "started"
      /\ \A i \in 2..Len(sent[r]) :
           \/ sent[r][i] = "data"
           \/ i = Len(sent[r]) /\ sent[r][i] \in {"stopped", "error"}

\* C7: once a stream has completed or errored, the table of its channel holds
\* no entry for it.
EndedStreamHasNoEntry ==
  \A r \in Received :
    streams[r].st \in {"completed", "errored"} =>
      subscriptions[PortOf(r)][reqs[r].id] # r

\* C8: once a subscription.stop for the id of a subscription request has been
\* handled (the procedure of the request being invoked and awaited, or its
\* stream subscribed), the table never holds an entry for that request.
StoppedHasNoEntry ==
  \A r \in Received :
    stopped[r] => subscriptions[PortOf(r)][reqs[r].id] # r

\* C9: handling subscription.stop for id X on channel C releases and removes the
\* entry of X if there is one (also when the release throws) and changes nothing
\* otherwise; it posts no envelope, calls neither createContext nor onError and
\* leaves every other entry as it was.
StopTouchesOnlyItsEntry ==
  [][\A p \in Ports, id \in Ids :
       HandleStop(p, id) =>
         /\ sent' = sent /\ ctxCalls' = ctxCalls /\ onErrorCalls' = onErrorCalls
         /\ task' = task /\ reqs' = reqs /\ portState' = portState
         /\ \A q \in Ports, j \in Ids :
              (q # p \/ j # id) => subscriptions'[q][j] = subscriptions[q][j]
         /\ subscriptions'[p][id] = 0
         /\ \A s \in Reqs :
              IF s = subscriptions[p][id]
                THEN streams'[s].unsubCalled /\ streams'[s].released = 1
                ELSE streams'[s] = streams[s]]_vars

\* C9 witness: a subscription.stop found the entry of its id, whose release
\* throws; the stream was unsubscribed and its entry is gone.
StopRemovedThrowingEntry ==
  \E r \in Received :
    /\ stopped[r] /\ streams[r].throws /\ streams[r].unsubCalled
    /\ streams[r].st = "active"
    /\ portState[PortOf(r)] = "open"
    /\ subscriptions[PortOf(r)][reqs[r].id] = 0

\* C21: every failure of a request handled by the dispatcher (path not found,
\* procedure throws, stream errors) gives one failure envelope for the request
\* and one call of onError, and onError is called for no other request: while
\* the channel is connected the failure envelopes posted for a request are at
\* most one and as many as the calls of onError made for it.
FailureReportedOnce ==
  \A r \in Received :
    portState[PortOf(r)] = "open" =>
      /\ Count(r, {"error"}) <= 1
      /\ onErrorCalls[r] = Count(r, {"error"})

\* request r fails in this step: its catch block runs, or its stream errors, or
\* its handler is left by the rejection of createContext
FailingStep(r) ==
  /\ r \in Received
  /\ \/ onErrorCalls'[r] > onErrorCalls[r]
     \/ streams'[r].st = "errored" /\ streams[r].st # "errored"
     \/ task'[r] = "crashed" /\ task[r] # "crashed"

\* no other request received on the channel of r carries the id of r
DistinctId(r) ==
  \A s \in Received \ {r} : ~(PortOf(s) = PortOf(r) /\ reqs[s].id = reqs[r].id)

\* C22: a step in which a request fails (its id being its own on its channel)
\* leaves every channel connected, every other request's handling, stream and
\* posted envelopes as they were, and every table entry of another id or
\* another channel as it was.
FailureIsLocal ==
  [][\A r \in Reqs :
       (FailingStep(r) /\ DistinctId(r)) =>
         /\ portState' = portState /\ reqs' = reqs
         /\ \A s \in Reqs \ {r} :
              /\ task'[s] = task[s] /\ streams'[s] = streams[s] /\ sent'[s] = sent[s]
              /\ ctxCalls'[s] = ctxCalls[s] /\ onErrorCalls'[s] = onErrorCalls[s]
         /\ \A q \in Ports, j \in Ids :
              (q # PortOf(r) \/ j # reqs[r].id) =>
                subscriptions'[q][j] = subscriptions[q][j]]_vars

\* C22 witness: on one connected channel the first request failed while the
\* stream of the second, of another id, stays registered and has posted a
\* value after its started envelope.
FailedBesideActiveStream ==
  /\ Len(reqs) = 2 /\ PortOf(1) = PortOf(2) /\ reqs[1].id # reqs[2].id
  /\ portState[PortOf(1)] = "open"
  /\ sent[1] = <<"error">> /\ onErrorCalls[1] = 1
  /\ subscriptions[PortOf(2)][reqs[2].id] = 2 /\ Live(2)
  /\ sent[2] = <<"started", "data">>

\* what one more run of the disconnect listener of channel p does to the tables
\* tbls and the streams strs: the subscriptions it calls unsubscribe() on, the
\* streams and the tables it leaves
DisconnectRun(p, tbls, strs) ==
  [unsubscribed |-> Entries(tbls[p]),
   streams |-> [r \in Reqs |-> IF r \in Entries(tbls[p]) THEN Unsubscribe(strs[r]) ELSE strs[r]],
   subscriptions |-> [tbls EXCEPT ![p] = EmptyTable]]

\* C28: the disconnect listener is idempotent: a second run right after the
\* first one calls unsubscribe() on nothing and leaves the tables and the
\* streams as they are; and once it has run the channel stays closed and no
\* request of that channel is received any more.
DisconnectIdempotent ==
  [][\A p \in Ports :
       /\ (portState[p] = "open" /\ portState'[p] = "closed") =>
            LET again == DisconnectRun(p, subscriptions', streams') IN
              /\ again.unsubscribed = {}
              /\ again.streams = streams'
              /\ again.subscriptions = subscriptions'
       /\ portState[p] = "closed" =>
            /\ portState'[p] = "closed"
            /\ \A k \in 1..Len(reqs') : reqs'[k].port = p => k <= Len(reqs)
            /\ \A r \in Received : PortOf(r) = p => ctxCalls'[r] = ctxCalls[r]]_vars

\* C28 witness: a channel was disconnected while it held a live subscription,
\* which was released, and more requests could still have been received.
DisconnectedWithLiveStream ==
  \E r \in Received :
    /\ portState[PortOf(r)] = "closed"
    /\ streams[r].st = "active" /\ streams[r].unsubCalled /\ ~streams[r].throws
    /\ ~stopped[r]
    /\ subscriptions[PortOf(r)] = EmptyTable
    /\ Len(reqs) < MaxReqs

\* the step is one of channel a: its connection, a request or a
\* subscription.stop received on it, the handling of one of its requests, or
\* its disconnection
OnChannel(a) ==
  \/ OnConnect(a)
  \/ OnDisconnect(a)
  \/ \E id \in Ids : HandleStop(a, id)
  \/ \E id \in Ids, sh \in ReqShapes : HandleRequest(a, id, sh[1], sh[2])
  \/ \E r \in Received :
       /\ PortOf(r) = a
       /\ \/ task'[r] # task[r]
          \/ sent'[r] # sent[r]
          \/ streams'[r].st # streams[r].st
          \/ streams'[r].emitted # streams[r].emitted

\* the table of channel b and the subscriptions of its requests are untouched
Untouched(b) ==
  /\ subscriptions'[b] = subscriptions[b]
  /\ \A r \in Received :
       PortOf(r) = b =>
         /\ streams'[r].released = streams[r].released
         /\ streams'[r].unsubCalled = streams[r].unsubCalled

\* C29: the tables are per channel: a channel starts with an empty table, and a
\* step of channel a (a request, a subscription.stop, a disconnect) leaves the
\* table of every other channel and the subscriptions of its requests as they
\* are, also when both channels hold an entry with the same id.
TablesPerChannel ==
  [][/\ \A p \in Ports : OnConnect(p) => subscriptions'[p] = EmptyTable
     /\ \A a \in Ports :
          \/ \A b \in Ports \ {a} : Untouched(b)
          \/ ~OnChannel(a)]_vars

\* C29 witness: two channels each registered a subscription with the same id;
\* the one of the first channel was stopped or disconnected, the one of the
\* second channel is still in its table and live.
SameIdOnTwoChannels ==
  \E a \in Received, b \in Received :
    /\ PortOf(a) # PortOf(b) /\ reqs[a].id = reqs[b].id
    /\ streams[a].unsubCalled /\ subscriptions[PortOf(a)][reqs[a].id] = 0
    /\ subscriptions[PortOf(b)][reqs[b].id] = b /\ Live(b) /\ ~streams[b].unsubCalled

\* C39: when two subscription requests with the same id have been handled on
\* one channel, both streams are released once the disconnect listener of the
\* channel has run: none is left unreleased and out of the table's reach.
SameIdBothReleased ==
  [][\A p \in Ports :
       (portState[p] = "open" /\ portState'[p] = "closed") =>
         \A a \in Received, b \in Received :
           (/\ a # b /\ PortOf(a) = p /\ PortOf(b) = p /\ reqs[a].id = reqs[b].id
            /\ streams[a].st # "none" /\ streams[b].st # "none") =>
             /\ streams'[a].released = 1
             /\ streams'[b].released = 1]_vars

(***************************************************************************)
(* Properties of the client link (specification LinkSpec).                 *)
(***************************************************************************)
TerminalNotes == {"complete", "error:response", "error:timeout", "error:disconnect"}

\* the positions of the terminal notifications the caller of invocation i observed
Terminals(i) == {k \in 1..Len(ops[i].delivered) : ops[i].delivered[k] \in TerminalNotes}

\* C1: the caller of an invocation observes at most one terminal notification,
\* and it is the last thing it observes; an invocation that is completed has
\* had exactly one unless its caller cancelled it first; and once the
\* invocation is terminal or cancelled, nothing more is delivered, whatever
\* arrives.
OneTerminalNotification ==
  /\ [](\A i \in Invs :
          /\ Cardinality(Terminals(i)) <= 1
          /\ \A k \in Terminals(i) : k = Len(ops[i].delivered)
          /\ ops[i].isCompleted =>
               \/ Cardinality(Terminals(i)) = 1
               \/ ops[i].unsubscribed /\ ~ops[i].isDone /\ Terminals(i) = {})
  /\ [][\A i \in Invs :
          (Terminals(i) # {} \/ ops[i].unsubscribed) =>
            ops'[i].delivered = ops[i].delivered]_vars

\* C1 witness: an invocation is terminal and an envelope with its id arrived
\* afterwards; another was cancelled and an envelope with its id arrived
\* afterwards.
LateEnvelopesArrived ==
  \E i \in Invs, j \in Invs :
    /\ Terminals(i) # {} /\ ops[i].late > 0
    /\ Terminals(j) = {} /\ ops[j].unsubscribed /\ ops[j].late > 0

\* the subscription.stop envelopes posted with id i
StopEnvelopes(i) == {k \in 1..Len(posted) : posted[k] = <<i, "subscription.stop">>}

\* C10: a subscription.stop envelope is posted if and only if the caller
\* cancels a subscription that is not yet terminal; at most one per invocation,
\* with the id of the invocation, and the timer and the listeners of the
\* invocation are removed with it.
StopOnlyOnLiveCancel ==
  \A i \in Invs :
    /\ Cardinality(StopEnvelopes(i)) <= 1
    /\ StopEnvelopes(i) # {} <=>
         (ops[i].type = "subscription" /\ ops[i].unsubscribed /\ ~ops[i].isDone)
    /\ StopEnvelopes(i) # {} =>
         /\ \A s \in StopEnvelopes(i) :
              \E k \in 1..(s - 1) : posted[k] = <<i, "subscription">>
         /\ ~ops[i].timeoutId /\ ~ops[i].onMessage /\ ~ops[i].onDisconnect

\* C10 witness: one subscription was cancelled while pending and its stop was
\* posted; another one ended by a response and was cancelled to no effect.
StopPostedAndNotPosted ==
  \E i \in Invs, j \in Invs :
    /\ StopEnvelopes(i) # {}
    /\ ops[j].type = "subscription" /\ ops[j].isDone /\ StopEnvelopes(j) = {}

\* the envelopes the link posted with id i
PostedFor(i) == {k \in 1..Len(posted) : posted[k][1] = i}

\* invocation i is a query or mutation that its caller cancelled while it was pending
CancelledCall(i) ==
  /\ ops[i].type \in {"query", "mutation"}
  /\ ops[i].unsubscribed /\ ~ops[i].isDone

\* C11: cancelling a query or mutation is local: the only envelope ever posted
\* with its id is its request, its timer and its listeners are removed, and
\* nothing is delivered to its caller, whatever arrives afterwards.
CancelIsLocal ==
  \A i \in Invs :
    /\ ops[i].type \in {"query", "mutation"} =>
         \A k \in PostedFor(i) : posted[k] = <<i, ops[i].type>>
    /\ CancelledCall(i) =>
         /\ Cardinality(PostedFor(i)) = 1
         /\ ~ops[i].timeoutId /\ ~ops[i].onMessage /\ ~ops[i].onDisconnect
         /\ ops[i].delivered = <<>>

\* C11 witness: a query with a timer was cancelled while pending, a response
\* with its id arrived afterwards, and the other invocation is still pending.
CancelledCallGotLateResponse ==
  \E i \in Invs, j \in Invs :
    /\ CancelledCall(i) /\ ops[i].delay > 0 /\ ops[i].late > 0
    /\ port = "open"
    /\ ops[j].onMessage /\ ~ops[j].isCompleted

\* the terminal notifications the caller of invocation i observed
Outcomes(i) == {ops[i].delivered[k] : k \in Terminals(i)}

\* C12: once an invocation is terminal, by a response, a timeout or a
\* disconnect, neither its message listener nor its disconnect listener is
\* registered; it has one outcome only, and the error its caller was given is
\* the one of that outcome.
TerminalReleasesListeners ==
  \A i \in Invs :
    /\ Terminals(i) # {} => ~ops[i].onMessage /\ ~ops[i].onDisconnect
    /\ Cardinality(Outcomes(i)) <= 1
    /\ "error:timeout" \in Outcomes(i) <=> ops[i].error.code = "TIMEOUT"
    /\ "error:disconnect" \in Outcomes(i) <=> ops[i].error.code = "CLIENT_CLOSED_REQUEST"
    /\ "error:response" \in Outcomes(i) <=> ops[i].error.code = "INTERNAL_SERVER_ERROR"
    /\ "complete" \in Outcomes(i) => ops[i].error = NoError

\* C12 witness: one invocation timed out and another completed by a response,
\* and the channel disconnected afterwards without changing either outcome.
OutcomesKeptAfterDisconnect ==
  \E i \in Invs, j \in Invs :
    /\ Outcomes(i) = {"error:timeout"}
    /\ Outcomes(j) = {"complete"}
    /\ port = "closed"

\* invocation i has ended: its caller got a terminal notification, or cancelled it
Ended(i) == Terminals(i) # {} \/ ops[i].unsubscribed

\* C13: an invocation that is terminal or was cancelled has no timer armed, and
\* the timer callback, were it to run in that state, would change nothing of
\* the invocation (no error delivered, no listener change, no envelope posted).
NoTimerAfterEnd ==
  \A i \in Invs :
    Ended(i) =>
      /\ ~ops[i].timeoutId
      /\ TimeoutCallback(ops[i]) = ops[i]

\* C13 witness: with a timeout of 50 ms, one invocation ended by a response
\* and the other was cancelled while pending; both had a timer set.
EndedWithTimerSet ==
  \E i \in Invs, j \in Invs :
    /\ timeout = 50
    /\ ops[i].delay = 50 /\ Outcomes(i) \in {{"complete"}, {"error:response"}}
    /\ ops[j].delay = 50 /\ ops[j].unsubscribed /\ Terminals(j) = {}

\* C14: a timer is armed only for an invocation that is pending and has been
\* given nothing; when the timer of an invocation with timeout T > 0 fires, the
\* caller is given, as its only notification, an error of code TIMEOUT whose
\* message is built from T and from the path of the invocation.
TimeoutRejects ==
  /\ [](\A i \in Invs :
          ops[i].timeoutId =>
            /\ timeout > 0 /\ ops[i].delay = timeout
            /\ ~ops[i].isCompleted /\ ~ops[i].isDone /\ ~ops[i].unsubscribed
            /\ ops[i].delivered = <<>>)
  /\ [][\A i \in Invs :
          TimerFires(i) =>
            /\ ops'[i].delivered = <<"error:timeout">>
            /\ ops'[i].error.code = "TIMEOUT"
            /\ ops'[i].error.message.template = "Request timed out after ${timeout}ms for ${path}"
            /\ ops'[i].error.message.timeout = timeout
            /\ ops'[i].error.message.path = OpPath(i)
            /\ ops'[i].isCompleted]_vars

\* C14 witness: with a timeout of 50 ms both invocations were left without a
\* response and were rejected by their timers, each with its own path.
BothTimedOut ==
  /\ timeout = 50
  /\ \A i \in Invs :
       /\ ops[i].delivered = <<"error:timeout">>
       /\ ops[i].error = CreateTimeoutError(50, OpPath(i))
       /\ ops[i].late = 0
  /\ arrived = 0 /\ port = "open"

\* the last notification the caller of invocation j observed ("" if none)
LastNote(o) == IF o.delivered = <<>> THEN "" ELSE o.delivered[Len(o.delivered)]

\* C15: when the timer of one invocation fires, the channel stays connected,
\* nothing is posted, and every other invocation keeps its timer, its
\* listeners, its pending status and what its caller observed; and in every
\* step an invocation is given a timeout error only by its own timer and a
\* response failure only by an envelope with its own id.
TimeoutIsLocal ==
  [][/\ \A i \in Invs :
          TimerFires(i) =>
            /\ port' = port /\ posted' = posted
            /\ \A j \in Invs \ {i} : ops'[j] = ops[j]
      /\ \A j \in Invs :
          ops'[j].delivered # ops[j].delivered =>
            /\ LastNote(ops'[j]) = "error:timeout" => ops[j].timeoutId /\ TimerFires(j)
            /\ LastNote(ops'[j]) = "error:response" => Receive(j, "error")]_vars

\* C15 witness: one invocation was rejected by its timer while the other is
\* still pending on the connected channel with its timer and its listeners.
TimedOutBesidePending ==
  \E i \in Invs, j \in Invs :
    /\ Outcomes(i) = {"error:timeout"}
    /\ port = "open"
    /\ ops[j].timeoutId /\ ops[j].onMessage /\ ops[j].onDisconnect
    /\ ~ops[j].isCompleted /\ ops[j].delivered = <<>>

\* C16: with options.timeout 0 or negative no timer is ever armed and no
\* invocation ends with a timeout error; with no options.timeout the timer of
\* every invocation is set with a delay of 30000 ms.
TimeoutDisabledOrDefault ==
  /\ (options.given /\ options.ms <= 0) =>
       \A i \in Invs :
         /\ ~ops[i].timeoutId /\ ops[i].delay = 0
         /\ "error:timeout" \notin Outcomes(i) /\ ops[i].error.code # "TIMEOUT"
  /\ ~options.given =>
       \A i \in Invs : ops[i].type # "none" => ops[i].delay = 30000

\* C16 witness: with a negative options.timeout two invocations are pending
\* without a timer and nothing has arrived for them.
PendingWithoutTimer ==
  /\ options.given /\ options.ms < 0
  /\ arrived = 0 /\ port = "open"
  /\ \A i \in Invs : ops[i].onMessage /\ ~ops[i].isCompleted /\ ~ops[i].timeoutId

\* invocation record o is pending: invoked and not completed
Pending(o) == o.type # "none" /\ ~o.isCompleted

\* C17: when the channel disconnects, every invocation that is pending is
\* given an error of code CLIENT_CLOSED_REQUEST (not TIMEOUT) as its terminal
\* notification and loses its timer and its listeners; every other invocation
\* is given nothing.
DisconnectRejectsPending ==
  [][(port = "open" /\ port' = "closed") =>
       \A i \in Invs :
         IF Pending(ops[i])
           THEN /\ ops'[i].delivered = Append(ops[i].delivered, "error:disconnect")
                /\ ops'[i].error.code = "CLIENT_CLOSED_REQUEST"
                /\ ops'[i].error.message.reason = "Port disconnected unexpectedly"
                /\ ops'[i].isCompleted
                /\ ~ops'[i].timeoutId /\ ~ops'[i].onMessage /\ ~ops'[i].onDisconnect
           ELSE /\ ops'[i].delivered = ops[i].delivered
                /\ ops'[i].error = ops[i].error]_vars

\* C17 witness: the channel disconnected while one invocation was pending with
\* its 30000 ms timer set, and it got the disconnection error; the other one
\* had completed before and kept its outcome.
DisconnectedWhilePending ==
  \E i \in Invs, j \in Invs :
    /\ port = "closed"
    /\ ops[i].delay = 30000 /\ ops[i].delivered = <<"error:disconnect">>
    /\ ops[i].error = CreateDisconnectionError("Port disconnected unexpectedly")
    /\ Outcomes(j) = {"complete"}

\* C18: an envelope with id X that arrives on the channel changes nothing of
\* any invocation whose id is not X: timer, completion flag, listeners and
\* what its caller observed stay as they were, in whatever order envelopes come.
ResponseRoutedById ==
  [][\A id \in Invs :
       \/ \A j \in Invs : MessageId(j) # id => ops'[j] = ops[j]
       \/ \A rt \in ResponseTypes : ~Receive(id, rt)]_vars

\* C18 witness: two invocations were pending together and the response of the
\* second arrived first: the second has completed with its value while the
\* first still has its timer and its listeners and has been given nothing.
SecondAnsweredFirst ==
  /\ Len(posted) = 2 /\ arrived = 1
  /\ ops[2].type = "query" /\ ops[2].delivered = <<"next:data", "complete">>
  /\ ops[1].type # "none" /\ ops[1].delivered = <<>> /\ ~ops[1].isCompleted
  /\ ops[1].timeoutId /\ ops[1].onMessage /\ ops[1].onDisconnect

\* C19: what the caller of a subscription observes is one value per data
\* envelope received for its id, in order, and then its terminal notification:
\* the started acknowledgement delivers no value.
StreamDeliversDataOnly ==
  \A i \in Invs :
    ops[i].type = "subscription" =>
      \A k \in 1..Len(ops[i].delivered) :
        ops[i].delivered[k] \in {"next:data"} \cup TerminalNotes

(***************************************************************************)
(* Properties of a call carried end to end (specification CallSpec).       *)
(***************************************************************************)
\* C20: for a query or mutation the procedure is called with the handler's
\* deserialize of the link's serialize of the input, and the caller is given
\* the link's deserialize of the handler's serialize of the procedure's
\* result, each conversion applied once; with the default transformer on both
\* sides the procedure gets the input itself and the caller the result itself.
TransformerRoundTrip ==
  /\ call.stage \in {"procedure", "response", "resolved"} =>
       /\ call.procInput = Deserialize(call.handler, Serialize(call.link, call.input))
       /\ (call.link = "custom" /\ call.handler = "custom") =>
            call.procInput = <<"deserialize", "serialize">> \o call.input
       /\ (call.link = "absent" /\ call.handler = "absent") =>
            call.procInput = call.input
  /\ call.stage = "resolved" =>
       /\ call.result = Deserialize(call.link, Serialize(call.handler, call.procResult))
       /\ (call.link = "custom" /\ call.handler = "custom") =>
            call.result = <<"deserialize", "serialize">> \o call.procResult
       /\ (call.link = "absent" /\ call.handler = "absent") =>
            call.result = call.procResult

\* C20 witness: a mutation with a transformer on both sides: input "k" reached
\* the procedure, which returned "v", and the call has resolved.
MutationResolvedThroughTransformer ==
  /\ call.stage = "resolved" /\ call.method = "mutation"
  /\ call.link = "custom" /\ call.handler = "custom"
  /\ call.input = <<"k">> /\ call.procInput = <<"deserialize", "serialize", "k">>
  /\ call.procResult = <<"v">> /\ call.result = <<"deserialize", "serialize", "v">>

(***************************************************************************)
(* Properties of the path resolution (specification PathSpec).             *)
(***************************************************************************)
\* the nodes of a tree
Nodes(tree) == Trees[tree].routers \cup Trees[tree].procedures

\* the positions of the parts of a path at which the tree has no node
MissingAt(tree, path) == {k \in 1..Len(path) : SubSeq(path, 1, k) \notin Nodes(tree)}

\* the first part of a path for which the tree has no node
FirstMissing(tree, path) ==
  path[CHOOSE k \in MissingAt(tree, path) : \A j \in MissingAt(tree, path) : k <= j]

\* C23: when a part of the path has no node in the tree, no procedure is
\* invoked and the request fails with a NOT_FOUND error whose message names the
\* full path and, as the missing segment, the first part that has no node.
MissingSegmentNamed ==
  MissingAt(walk.tree, walk.path) # {} =>
    /\ ~walk.invoked
    /\ walk.outcome # "called"
    /\ walk.outcome = "thrown" =>
         /\ walk.error.code = "NOT_FOUND"
         /\ walk.error.message.path = walk.path
         /\ walk.error.message.part = FirstMissing(walk.tree, walk.path)

(***************************************************************************)
(* Properties of the errors across the boundary (specification ErrorSpec). *)
(***************************************************************************)
\* the failure envelope as the dispatcher posted it is the one at hand
Posted == fault.stage \in {"posted", "received"} /\ ~fault.bare

\* the category of the error the envelope was made from
Category == AsTRPCError(fault.thrown).code

\* C24: the code of every failure envelope is -32700 for PARSE_ERROR, -32600
\* for BAD_REQUEST, -32601 for NOT_FOUND and METHOD_NOT_SUPPORTED, and -32603
\* for INTERNAL_SERVER_ERROR and for every other category.
EnvelopeCodeOfCategory ==
  Posted =>
    /\ fault.envelope.code = getJSONRPCErrorCode(Category)
    /\ fault.envelope.code =
         CASE Category = "PARSE_ERROR" -> -32700
           [] Category = "BAD_REQUEST" -> -32600
           [] Category \in {"NOT_FOUND", "METHOD_NOT_SUPPORTED"} -> -32601
           [] OTHER -> -32603

\* C24 witness: the envelope of a METHOD_NOT_SUPPORTED error has been posted
\* with code -32601.
MethodNotSupportedPosted ==
  /\ Posted
  /\ fault.thrown.kind = "TRPCError" /\ fault.thrown.code = "METHOD_NOT_SUPPORTED"
  /\ fault.envelope.code = -32601

\* C25: a TRPCError formatted by the dispatcher and reconstructed by the link
\* has the category and the message it had; an envelope without data.code is
\* reconstructed as INTERNAL_SERVER_ERROR; an Error that is no TRPCError, or a
\* value that is no Error, is formatted as INTERNAL_SERVER_ERROR with its
\* message, or its string form.
ErrorRoundTrip ==
  /\ (fault.stage = "received" /\ ~fault.bare /\ fault.thrown.kind = "TRPCError") =>
       /\ fault.trcpError.code = fault.thrown.code
       /\ fault.trcpError.message = fault.thrown.message
  /\ (fault.stage = "received" /\ fault.bare) =>
       /\ fault.trcpError.code = "INTERNAL_SERVER_ERROR"
       /\ fault.trcpError.message = AsTRPCError(fault.thrown).message
  /\ (Posted /\ fault.thrown.kind = "Error") =>
       /\ fault.envelope.data.code = "INTERNAL_SERVER_ERROR"
       /\ fault.envelope.message = fault.thrown.message
  /\ (Posted /\ fault.thrown.kind = "value") =>
       /\ fault.envelope.data.code = "INTERNAL_SERVER_ERROR"
       /\ fault.envelope.message = fault.thrown.text

\* C25 witness: a FORBIDDEN error with its message went through the envelope
\* and was reconstructed by the link.
ForbiddenReconstructed ==
  /\ fault.stage = "received" /\ ~fault.bare
  /\ fault.thrown.kind = "TRPCError" /\ fault.thrown.code = "FORBIDDEN"
  /\ fault.trcpError.code = "FORBIDDEN" /\ fault.trcpError.message = "not allowed"

\* C26: in a production build the envelope has neither stack nor cause and is
\* the envelope of every error of the same kind, category and message
\* whatever its stack and cause; in a development build the envelope of a
\* TRPCError carries its stack and its cause.
ProductionEnvelopeHidesStack ==
  Posted =>
    /\ ~fault.isDev =>
         /\ fault.envelope.data.stack = Undefined
         /\ fault.envelope.data.cause = Undefined
         /\ \A other \in Thrown :
              (/\ other.kind = fault.thrown.kind /\ other.code = fault.thrown.code
               /\ other.message = fault.thrown.message /\ other.text = fault.thrown.text)
                => formatTRPCError(other, fault.path, FALSE) = fault.envelope
    /\ (fault.isDev /\ fault.thrown.kind = "TRPCError") =>
         /\ fault.envelope.data.stack = fault.thrown.stack
         /\ fault.envelope.data.cause = fault.thrown.cause

\* C26 witness: a production build posted the envelope of a TRPCError that has
\* a stack and a cause.
ProductionEnvelopePosted ==
  /\ Posted /\ ~fault.isDev
  /\ fault.thrown.kind = "TRPCError"
  /\ fault.thrown.stack \in Stacks /\ fault.thrown.cause \in Causes
  /\ fault.envelope.data.present

\* what the caller of invocation i was given because of a response envelope
ResponseNotes == {"next:data", "next:started", "complete", "error:response"}

\* a response envelope with the id of invocation i was received by its listener
GotResponse(i) == \E k \in 1..Len(ops[i].delivered) : ops[i].delivered[k] \in ResponseNotes

\* C38: the timeout covers the wait for the first response only: once an
\* envelope with the id of an invocation was received, a started or a data
\* value of a subscription included, the invocation has no timer and does not
\* end with a timeout error.
TimeoutCoversFirstResponse ==
  \A i \in Invs :
    GotResponse(i) =>
      /\ ~ops[i].timeoutId
      /\ "error:timeout" \notin Outcomes(i)
      /\ ops[i].error.code # "TIMEOUT"

\* C38 witness: a subscription made with a positive timeout has received
\* started; it is still pending and has no timer.
StartedWithoutTimer ==
  \E i \in Invs :
    /\ ops[i].type = "subscription" /\ ops[i].delay > 0
    /\ ops[i].delivered = <<"next:started">>
    /\ ~ops[i].timeoutId /\ ~ops[i].isCompleted /\ ops[i].onMessage

(***************************************************************************)
(* Termination of queries and mutations (specification LinkFairSpec).      *)
(***************************************************************************)
\* invocation i is a query or a mutation made with a positive timeout
TimedCall(i) == ops[i].type \in {"query", "mutation"} /\ timeout > 0

\* C27: every query or mutation made with a positive timeout eventually has a
\* terminal notification delivered to its caller (complete after a result, or
\* an error), unless the caller cancelled it, whether the channel delivers
\* responses, failures, nothing at all, or disconnects, provided that timers
\* fire.
TimedCallTerminates ==
  \A i \in Invs : TimedCall(i) ~> (Terminals(i) # {} \/ ops[i].unsubscribed)

\* C27 witness: with a positive timeout and no disconnect, one call has ended
\* with a response and the other, never answered, with the timeout error.
AnsweredAndTimedOut ==
  /\ timeout > 0 /\ port = "open"
  /\ \E i, j \in Invs :
       /\ i # j /\ TimedCall(i) /\ TimedCall(j)
       /\ Outcomes(i) = {"complete"}
       /\ Outcomes(j) = {"error:timeout"} /\ ops[j].late = 0

(***************************************************************************)
(* Properties of the debug recorder (specification PerfSpec).              *)
(***************************************************************************)
\* C30: the recorder retains a bounded set of samples: after any sequence of
\* startPerformance and endPerformance calls, with operations that are
\* started and never ended, the Map never holds more than maxEntries entries.
RetainedEntriesBounded ==
  Cardinality(Keys(perf.performanceEntries)) <= maxEntries

(***************************************************************************)
(* Properties of the link with its logger (specification DebugSpec).       *)
(***************************************************************************)
\* C31: the recorder is observational: after the same invocation, responses,
\* timer firings, cancels and disconnects, the closure of the invocation with
\* what its caller was given, and the envelopes posted, are the same with the
\* logger of any options (enabled or not, any level, performance logging or
\* not) as with the logger off, and are what the handlers without their
\* logger calls give.
RecorderObservational ==
  /\ dbg.loud.op = dbg.quiet.op
  /\ dbg.loud.posted = dbg.quiet.posted
  /\ dbg.quiet.op = dbg.plain
  /\ dbg.quiet.logger.lines = <<>>

\* C31 witness: a run at level TRACE with performance logging has written
\* lines and recorded the end of its operation; its caller was told the end.
TracedRunEnded ==
  /\ dbg.loud.logger.enabled /\ dbg.loud.logger.level = DebugLevel.TRACE
  /\ dbg.loud.logger.logPerformance
  /\ Len(dbg.loud.logger.lines) >= 6
  /\ dbg.loud.logger.entriesOrder = <<1>>
  /\ dbg.loud.op.isDone /\ dbg.loud.posted # <<>>

(***************************************************************************)
(* Properties of generateId (specification IdSpec).                        *)
(***************************************************************************)
\* C32: the ids generateId returns within one process lifetime are pairwise
\* distinct, also those of calls made within the same millisecond.
GeneratedIdsDistinct ==
  \A i \in 1..Len(gen.ids), j \in 1..Len(gen.ids) : i # j => gen.ids[i] # gen.ids[j]

(***************************************************************************)
(* Properties of the channel selection (specification ChannelSpec).        *)
(***************************************************************************)
\* the channels the invocations of link l used
ChannelsOf(l) == {chan.invs[k].port : k \in {j \in 1..Len(chan.invs) : chan.invs[j].link = l}}

\* C33: with an explicit channel every invocation uses it and connect is never
\* called; without one, each call of the link factory opens its own channel:
\* at most one channel per factory call, used by all invocations of that
\* link and by no invocation of another link.
ChannelPerFactoryCall ==
  /\ chan.supplied =>
       /\ chan.connects = 0
       /\ \A k \in 1..Len(chan.invs) : chan.invs[k].port = 1
  /\ ~chan.supplied =>
       /\ chan.connects <= Len(chan.links)
       /\ \A l \in 1..Len(chan.links) : Cardinality(ChannelsOf(l)) <= 1
       /\ \A l \in 1..Len(chan.links), m \in 1..Len(chan.links) :
            l # m => ChannelsOf(l) \cap ChannelsOf(m) = {}

\* C37: the link never disconnects a channel: no channel is disconnected by
\* the link, and the channel of an invocation that ended by a response, a
\* failure, stopped, its timeout or a cancel is connected unless the other
\* side disconnected it, whether it was supplied or opened for the invocation.
LinkNeverDisconnects ==
  /\ \A p \in 1..Len(chan.ports) : chan.ports[p].closedBy # "link"
  /\ \A k \in 1..Len(chan.invs) :
       chan.invs[k].cause \in EndCauses =>
         \/ chan.ports[chan.invs[k].port].state = "connected"
         \/ chan.ports[chan.invs[k].port].closedBy = "peer"

\* C37 witness: two invocations of a link without explicit channel have ended,
\* one by its timeout and one by a cancel; the channels opened for them are
\* connected and hold no listener.
OpenedChannelsLeftConnected ==
  /\ ~chan.supplied /\ chan.variant = "extensionLink"
  /\ \E j \in 1..Len(chan.invs), k \in 1..Len(chan.invs) :
       /\ chan.invs[j].cause = "timeout" /\ chan.invs[k].cause = "cancel"
       /\ chan.invs[j].port # chan.invs[k].port
       /\ \A p \in {chan.invs[j].port, chan.invs[k].port} :
            chan.ports[p].state = "connected" /\ chan.ports[p].listeners = {}

(***************************************************************************)
(* Properties of the adapters (specification AdapterSpec).                 *)
(***************************************************************************)
\* the host capability of the variant is available: a global API object with a
\* runtime id
HostAvailable ==
  CASE adapter.variant = "chrome" -> HasRuntimeId(adapter.chrome)
    [] adapter.variant = "polyfill" -> HasRuntimeId(adapter.browser)
    [] adapter.variant = "wxt" -> HasRuntimeId(adapter.browser) \/ HasRuntimeId(adapter.chrome)

\* C34: every adapter variant returns a supplied browserAPI as it is, and
\* otherwise throws, returning nothing, when no global API object with a
\* runtime id is available.
AdaptersFailFast ==
  adapter.stage = "created" =>
    /\ adapter.browserAPI => adapter.outcome = Returned("options.browserAPI")
    /\ (~adapter.browserAPI /\ ~HostAvailable) => adapter.outcome.thrown

\* C35: when the request envelope of an invocation is posted its message
\* listener and its disconnect listener are registered and its timer is not
\* armed yet; the timer is armed after the post, if the timeout is positive.
ListenersBeforeSend ==
  dbg.stage = "invoked" =>
    /\ dbg.loud.posted # <<>> /\ Head(dbg.loud.posted) = <<1, dbg.loud.op.type>>
    /\ dbg.loud.atPost.onMessage /\ dbg.loud.atPost.onDisconnect
    /\ ~dbg.loud.atPost.timeoutId /\ dbg.loud.atPost.delay = 0
    /\ dbg.loud.op.delay = (IF timeout > 0 THEN timeout ELSE 0)
    /\ dbg.events = 0 => dbg.loud.op.timeoutId = (timeout > 0)

\* C35 witness: a subscription with a positive timeout was posted with both
\* listeners registered, and the response that followed reached its caller.
ResponseAfterSendObserved ==
  /\ dbg.stage = "invoked" /\ timeout > 0
  /\ dbg.loud.op.type = "subscription"
  /\ dbg.loud.atPost.onMessage /\ dbg.loud.atPost.onDisconnect
  /\ dbg.events = 1 /\ dbg.loud.op.delivered = <<"next:started">>

(***************************************************************************)
(* Properties of unrelated traffic (specification TrafficSpec).            *)
(***************************************************************************)
\* C36: a message without the protocol key is ignored by both sides: it
\* changes no pending invocation, has no request handled, and raises no error.
UnrelatedTrafficIgnored ==
  stray.last = "unrelated" =>
    /\ stray.op = stray.before.op
    /\ stray.handled = stray.before.handled
    /\ stray.raised = "none"

====
